---- MODULE Spec2Model ----
(***************************************************************************)
(* A model of the voxelizer scripts of python_scripts:                     *)
(*   voxelSimple/satTest.py    SimpleVec, Shape, AABB, Triangle (SAT test) *)
(*   voxelSimple/voxelSimple.py  voxelize, the grid driver                 *)
(*   octTree.py, voxelizer_octree.py  the octree and its driver            *)
(*                                                                         *)
(* Numbers.  The program computes with binary floating point.  The model   *)
(* computes with integers that stand for exact dyadic rationals: every     *)
(* coordinate of the model is a multiple of Grid = 2^(MaxDepth+1), so each  *)
(* division by 2.0 the program makes down to depth MaxDepth+1 is exact     *)
(* (HalvingExact states it).  Rounding, overflow and underflow of floats   *)
(* are outside the model.                                                  *)
(***************************************************************************)
EXTENDS Integers, Sequences, FiniteSets, TLC

VARIABLES
    pc,              \* position of voxelize / _voxelize_mesh / the function call under test
    division_level,  \* voxelize(mesh_name, division_level)
    faces,           \* the triangles of the mesh, as cmds.ls('%s.f[*]') lists them
    hx,              \* half x-extent of the mesh bounding box (voxelSimple.py:23)
    voxel_lattice,   \* the queue / list of AABBs (voxelSimple.py:30)
    vox_map,         \* dict: voxel.center -> voxel.half_vector (voxelSimple.py:45)
    i,               \* index of the face being processed (voxelSimple.py:48)
    polls,           \* number of calls of updateProgressWindow so far
    passes,          \* number of passes of the while loop of voxelSimple.py:31 so far
    isCancelled,     \* cmds.progressWindow(q=True, ic=True): the user pressed cancel
    progress,        \* state of the progress window
    created,         \* centres of the poly cubes created (voxelSimple.py:77-78)
    raised,          \* the exception that ended the call, or "none"
    num_divisions,   \* _voxelize_mesh(mesh_name, num_divisions)
    oct_tree,        \* the nodes of the OctTree, by their path from the root
    oct_tree_nodes,  \* the queue of nodes (voxelizer_octree.py:51), as paths
    voxel_locations, \* the set of midpoints (voxelizer_octree.py:61)
    face_index,      \* index of the face being processed (voxelizer_octree.py:63)
    vtx_order,       \* how the host numbers the vertices of the mesh (mesh.vtx[n])
    call,            \* the function application under test (pure-function specifications)
    calls,           \* number of calls of voxelize begun in this session of the host
    tests,           \* number of calls of tri.intersects(voxel) made by this call of voxelize
    minecraft,       \* voxelizeMesh(meshName, avgEdgeLength, minecraft)
    verts,           \* the locations of the vertices of grabVertices(meshName), in order
    vert_pos,        \* number of passes of the vertex loop of voxelizeMesh made so far
    voxels,          \* the instances created, by their locations (maya_voxelize.py:126)
    voxelMap,        \* the keys of the dict voxelMap (maya_voxelize.py:127)
    numpartitions,   \* opts.numpartitions of pathPartition.py, with its type
    files,           \* the sorted listing of the directory (pathPartition.py:51)
    file_pos,        \* number of passes of the loop of pathPartition.py:62 made so far
    partitions,      \* the list of partitions (pathPartition.py:58)
    partition_index  \* pathPartition.py:60

octVars == <<num_divisions, oct_tree, oct_tree_nodes, voxel_locations, face_index, vtx_order>>

mayaVars == <<minecraft, verts, vert_pos, voxels, voxelMap>>

partVars == <<numpartitions, files, file_pos, partitions, partition_index>>

restVars == <<mayaVars, partVars>>

vars == <<pc, division_level, faces, hx, voxel_lattice, vox_map, i, polls, passes,
          isCancelled, progress, created, raised, call, octVars, calls, tests, restVars>>

-----------------------------------------------------------------------------
(* Bounds *)

\* the largest division_level, given with the meshes of DeepMeshes
MaxDepth == 2

\* the largest division_level given with the other meshes
MaxMeshDepth == 1

\* the largest number of faces of a mesh made of the triangles of TrianglePool
MaxFaces == 2

\* the ranges given to _overlap have their ends in 0..MaxRange
MaxRange == 3

\* the first vertex of a triangle given to intersects has its coordinates in
\* -MaxCoord..MaxCoord
MaxCoord == 2

\* the boxes given to subdivide have half-extents 2, 4, .. 2*MaxHalf
MaxHalf == 2

\* voxelize is called at most MaxCalls times in one session of the host
MaxCalls == 2

\* the meshes given to voxelizeMesh have at most MaxVerts vertices
MaxVerts == 3

\* the directory given to pathPartition holds at most MaxFiles files
MaxFiles == 9

\* the -n option of pathPartition is given at most MaxPartitions
MaxPartitions == 5

RECURSIVE Pow(_, _)
Pow(b, n) == IF n <= 0 THEN 1 ELSE b * Pow(b, n - 1)

\* Every coordinate of an input is a multiple of Grid
Grid == Pow(2, MaxDepth + 1)

Abs(x) == IF x < 0 THEN -x ELSE x

RECURSIVE Gcd(_, _)
Gcd(a, b) == IF b = 0 THEN a ELSE Gcd(b, a % b)

\* x/2.0 ; exact on the even numbers (see HalvingExact)
Half(x) == x \div 2

-----------------------------------------------------------------------------
(* satTest.py: SimpleVec *)

SimpleVec(x, y, z) == <<x, y, z>>

VecAdd(s, v) == SimpleVec(s[1] + v[1], s[2] + v[2], s[3] + v[3])

VecSub(s, v) == SimpleVec(s[1] - v[1], s[2] - v[2], s[3] - v[3])

VecScale(s, k) == SimpleVec(s[1] * k, s[2] * k, s[3] * k)

\* cross with the y component not negated
cross_unsigned(s, v) ==
    LET x_comp == s[2] * v[3] - v[2] * s[3]
        y_comp == s[1] * v[3] - v[1] * s[3]
        z_comp == s[1] * v[2] - v[1] * s[2]
    IN  SimpleVec(x_comp, y_comp, z_comp)

\* SimpleVec.cross
cross(s, v) ==
    LET x_comp == s[2] * v[3] - v[2] * s[3]
        y_comp == s[1] * v[3] - v[1] * s[3]
        z_comp == s[1] * v[2] - v[1] * s[2]
    IN  SimpleVec(x_comp, -y_comp, z_comp)

dot(s, v) == s[1] * v[1] + s[2] * v[2] + s[3] * v[3]

\* SimpleVec.__mul__: v is an operand with its type, a SimpleVec or a number
__mul__(self, v) ==
    IF v.type = "SimpleVec" THEN cross(self, v.val)
    ELSE SimpleVec(self[1] * v.val, self[2] * v.val, self[3] * v.val)

\* SimpleVec.__rmul__: v * self, called when v does not multiply by itself
__rmul__(self, v) ==
    IF v.type = "SimpleVec" THEN cross(v.val, self)
    ELSE SimpleVec(self[1] * v.val, self[2] * v.val, self[3] * v.val)

zero_vector == SimpleVec(0, 0, 0)

\* normalize divides by math.sqrt(x**2+y**2+z**2): ZeroDivisionError when that is 0
NormalizeRaises(v) == v[1] * v[1] + v[2] * v[2] + v[3] * v[3] = 0

\* normalize rescales v by the positive factor 1/|v|.  The model keeps the
\* direction in lowest integer terms: v rescaled by the positive factor
\* 1/gcd(|x|,|y|,|z|).  Two vectors have the same image iff they have the same
\* direction, as with unit vectors.
normalize(v) ==
    LET g == Gcd(Gcd(Abs(v[1]), Abs(v[2])), Abs(v[3]))
    IN  SimpleVec(v[1] \div g, v[2] \div g, v[3] \div g)

-----------------------------------------------------------------------------
(* satTest.py: Shape *)

\* the loop of _max_values on one component: "if x > max_x ... elif x < min_x"
RECURSIVE MaxLoop(_, _, _, _)
MaxLoop(vals, k, mx, mn) ==
    IF k > Len(vals) THEN <<mn, mx>>
    ELSE IF vals[k] > mx THEN MaxLoop(vals, k + 1, vals[k], mn)
    ELSE IF vals[k] < mn THEN MaxLoop(vals, k + 1, mx, vals[k])
    ELSE MaxLoop(vals, k + 1, mx, mn)

\* Shape._max_values: the extents cached on the shape at construction
_max_values(vertices) ==
    LET comp(c) == [k \in 1..Len(vertices) |-> vertices[k][c]]
        ext(c)  == MaxLoop(comp(c), 1, vertices[1][c], vertices[1][c])
    IN  [min_x |-> ext(1)[1], max_x |-> ext(1)[2],
         min_y |-> ext(2)[1], max_y |-> ext(2)[2],
         min_z |-> ext(3)[1], max_z |-> ext(3)[2]]

\* Shape.__init__: the vertices and their extents
Shape(vertices) ==
    LET ext == _max_values(vertices)
    IN  [kind |-> "Shape", vertices |-> vertices,
         min_x |-> ext.min_x, max_x |-> ext.max_x,
         min_y |-> ext.min_y, max_y |-> ext.max_y,
         min_z |-> ext.min_z, max_z |-> ext.max_z]

\* _quick_rejection with the maximum of the other shape for its minimum and
\* its minimum for its maximum: a shape that does not reach as far as the other
\* is rejected
_quick_rejection_wrong_extent(self, shape) ==
    IF self.max_x < shape.max_x THEN TRUE
    ELSE IF self.min_x > shape.min_x THEN TRUE
    ELSE IF self.max_y < shape.max_y THEN TRUE
    ELSE IF self.min_y > shape.min_y THEN TRUE
    ELSE IF self.max_z < shape.max_z THEN TRUE
    ELSE IF self.min_z > shape.min_z THEN TRUE
    ELSE FALSE

\* _quick_rejection with <= and >= for < and >: shapes that touch are rejected
_quick_rejection_touching(self, shape) ==
    IF self.max_x <= shape.min_x THEN TRUE
    ELSE IF self.min_x >= shape.max_x THEN TRUE
    ELSE IF self.max_y <= shape.min_y THEN TRUE
    ELSE IF self.min_y >= shape.max_y THEN TRUE
    ELSE IF self.max_z <= shape.min_z THEN TRUE
    ELSE IF self.min_z >= shape.max_z THEN TRUE
    ELSE FALSE

\* Shape._quick_rejection
_quick_rejection(self, shape) ==
    IF self.max_x < shape.min_x THEN TRUE
    ELSE IF self.min_x > shape.max_x THEN TRUE
    ELSE IF self.max_y < shape.min_y THEN TRUE
    ELSE IF self.min_y > shape.max_y THEN TRUE
    ELSE IF self.max_z < shape.min_z THEN TRUE
    ELSE IF self.min_z > shape.max_z THEN TRUE
    ELSE FALSE

\* the loop of project: "if p < minVal ... elif p > maxVal"
RECURSIVE ProjectLoop(_, _, _, _, _)
ProjectLoop(vertices, axis, k, minVal, maxVal) ==
    IF k > Len(vertices) THEN <<minVal, maxVal>>
    ELSE LET p == dot(axis, vertices[k])
         IN  IF p < minVal THEN ProjectLoop(vertices, axis, k + 1, p, maxVal)
             ELSE IF p > maxVal THEN ProjectLoop(vertices, axis, k + 1, minVal, p)
             ELSE ProjectLoop(vertices, axis, k + 1, minVal, maxVal)

\* project with minVal and maxVal begun at 0 for the projection of vertex 0
project_from_zero(self, axis) ==
    ProjectLoop(self.vertices, axis, 1, 0, 0)

\* Shape.project
project(self, axis) ==
    ProjectLoop(self.vertices, axis, 1,
                dot(axis, self.vertices[1]), dot(axis, self.vertices[1]))

\* _overlap with >= for > in its first two tests: ranges that touch overlap
_overlap_touching(min_max0, min_max1) ==
    LET min0 == min_max0[1]
        max0 == min_max0[2]
        min1 == min_max1[1]
        max1 == min_max1[2]
    IN  IF min0 < min1 /\ max0 >= min1 THEN TRUE
        ELSE IF min1 < min0 /\ max1 >= min0 THEN TRUE
        ELSE IF max1 > max0 /\ min1 < min0 THEN TRUE
        ELSE IF max0 > max1 /\ min0 < min1 THEN TRUE
        ELSE FALSE

\* Shape._overlap
_overlap(min_max0, min_max1) ==
    LET min0 == min_max0[1]
        max0 == min_max0[2]
        min1 == min_max1[1]
        max1 == min_max1[2]
    IN  IF min0 < min1 /\ max0 > min1 THEN TRUE
        ELSE IF min1 < min0 /\ max1 > min0 THEN TRUE
        ELSE IF max1 > max0 /\ min1 < min0 THEN TRUE
        ELSE IF max0 > max1 /\ min0 < min1 THEN TRUE
        ELSE FALSE

\* AABB.axes, shared by all boxes
AABB_axes == <<SimpleVec(1, 0, 0), SimpleVec(0, 1, 0), SimpleVec(0, 0, 1)>>

\* shape.axes: the class attribute of AABB, the instance attribute of Triangle
Axes(shape) == IF shape.kind = "AABB" THEN AABB_axes ELSE shape.axes

\* the projection loop of Shape.intersects, alone
AxesOverlap(self, shape) ==
    LET axes == Axes(self) \o Axes(shape)
    IN  \A k \in 1..Len(axes) :
            _overlap(project(self, axes[k]), project(shape, axes[k]))

\* Shape.intersects
intersects(self, shape) ==
    IF _quick_rejection(self, shape) THEN FALSE
    ELSE AxesOverlap(self, shape)

-----------------------------------------------------------------------------
(* satTest.py: AABB *)

\* the vertices AABB.__init__ builds: i over x, j over y, k over z
AABBVertices(cx, cy, cz, hxx, hyy, hzz) ==
    LET xs == <<cx - hxx, cx + hxx>>
        ys == <<cy - hyy, cy + hyy>>
        zs == <<cz - hzz, cz + hzz>>
    IN  [n \in 1..8 |-> SimpleVec(xs[((n - 1) \div 4) + 1],
                                  ys[(((n - 1) \div 2) % 2) + 1],
                                  zs[((n - 1) % 2) + 1])]

\* AABB.__init__
AABB(cx, cy, cz, hxx, hyy, hzz, subdivs) ==
    LET vertices == AABBVertices(cx, cy, cz, hxx, hyy, hzz)
        ext      == _max_values(vertices)
    IN  [kind |-> "AABB", subdivs |-> subdivs, vertices |-> vertices,
         min_x |-> ext.min_x, max_x |-> ext.max_x,
         min_y |-> ext.min_y, max_y |-> ext.max_y,
         min_z |-> ext.min_z, max_z |-> ext.max_z,
         center |-> SimpleVec(cx, cy, cz),
         half_vector |-> SimpleVec(hxx, hyy, hzz)]

\* subdivide with the new centres at c - h and c + h for c - h/2 and c + h/2
subdivide_wide(self) ==
    LET c == self.center
        h == self.half_vector
        x_vals == <<c[1] - h[1], c[1] + h[1]>>
        y_vals == <<c[2] - h[2], c[2] + h[2]>>
        z_vals == <<c[3] - h[3], c[3] + h[3]>>
    IN  [n \in 1..8 |-> AABB(x_vals[((n - 1) \div 4) + 1],
                             y_vals[(((n - 1) \div 2) % 2) + 1],
                             z_vals[((n - 1) % 2) + 1],
                             Half(h[1]), Half(h[2]), Half(h[3]),
                             self.subdivs + 1)]

\* AABB.subdivide: the 8 boxes in the order new_cx, new_cy, new_cz
subdivide(self) ==
    LET c == self.center
        h == self.half_vector
        x_vals == <<c[1] - Half(h[1]), c[1] + Half(h[1])>>
        y_vals == <<c[2] - Half(h[2]), c[2] + Half(h[2])>>
        z_vals == <<c[3] - Half(h[3]), c[3] + Half(h[3])>>
    IN  [n \in 1..8 |-> AABB(x_vals[((n - 1) \div 4) + 1],
                             y_vals[(((n - 1) \div 2) % 2) + 1],
                             z_vals[((n - 1) % 2) + 1],
                             Half(h[1]), Half(h[2]), Half(h[3]),
                             self.subdivs + 1)]

-----------------------------------------------------------------------------
(* satTest.py: Triangle *)

\* _find_axes without the test of line 317: the zero cross products stay in
\* the list (as they are, having no direction)
_find_axes_unfiltered(vertices) ==
    LET f0 == VecSub(vertices[2], vertices[1])
        f1 == VecSub(vertices[3], vertices[2])
        f2 == VecSub(vertices[1], vertices[3])
        edges == <<f0, f1, f2>>
        surf_normal == normalize(cross(f0, f1))
        n_cross_e == [k \in 1..9 |->
                        cross(AABB_axes[((k - 1) % 3) + 1], edges[((k - 1) \div 3) + 1])]
        normals == <<surf_normal>> \o n_cross_e
    IN  [k \in 1..Len(normals) |->
            IF normals[k] = zero_vector THEN zero_vector ELSE normalize(normals[k])]

\* _find_axes with every direction listed once: a cross product along an axis
\* already in the list is left out
RECURSIVE Distinct(_, _)
Distinct(seq, k) ==
    IF k > Len(seq) THEN <<>>
    ELSE LET rest == Distinct(seq, k + 1)
         IN  IF \E j \in 1..(k - 1) : seq[j] = seq[k] \/ seq[j] = VecScale(seq[k], -1)
             THEN rest
             ELSE <<seq[k]>> \o rest

_find_axes_distinct(vertices) ==
    LET f0 == VecSub(vertices[2], vertices[1])
        f1 == VecSub(vertices[3], vertices[2])
        f2 == VecSub(vertices[1], vertices[3])
        edges == <<f0, f1, f2>>
        surf_normal == normalize(cross(f0, f1))
        n_cross_e == [k \in 1..9 |->
                        cross(AABB_axes[((k - 1) % 3) + 1], edges[((k - 1) \div 3) + 1])]
        normals == <<surf_normal>> \o SelectSeq(n_cross_e, LAMBDA n : n # zero_vector)
    IN  Distinct([k \in 1..Len(normals) |-> normalize(normals[k])], 1)

\* Triangle._find_axes: the surface normal, then n x e for the edges e and the
\* box normals n, the zero cross products left out; all normalized
_find_axes(vertices) ==
    LET f0 == VecSub(vertices[2], vertices[1])
        f1 == VecSub(vertices[3], vertices[2])
        f2 == VecSub(vertices[1], vertices[3])
        edges == <<f0, f1, f2>>
        surf_normal == normalize(cross(f0, f1))
        n_cross_e == [k \in 1..9 |->
                        cross(AABB_axes[((k - 1) % 3) + 1], edges[((k - 1) \div 3) + 1])]
        normals == <<surf_normal>> \o SelectSeq(n_cross_e, LAMBDA n : n # zero_vector)
    IN  [k \in 1..Len(normals) |-> normalize(normals[k])]

\* Triangle.__init__ ends with ZeroDivisionError when the surface normal is zero
TriangleRaises(v0, v1, v2) ==
    NormalizeRaises(cross(VecSub(v1, v0), VecSub(v2, v1)))

\* Triangle.__init__
Triangle(v0, v1, v2) ==
    LET vertices == <<v0, v1, v2>>
        ext      == _max_values(vertices)
    IN  [kind |-> "Triangle", vertices |-> vertices,
         min_x |-> ext.min_x, max_x |-> ext.max_x,
         min_y |-> ext.min_y, max_y |-> ext.max_y,
         min_z |-> ext.min_z, max_z |-> ext.max_z,
         axes |-> _find_axes(vertices)]

-----------------------------------------------------------------------------
(* Inputs of the grid driver: meshes of triangles *)

\* a vertex given in grid cells
V(x, y, z) == SimpleVec(x * Grid, y * Grid, z * Grid)

\* a triangle in the plane x = 4 cells
TriFlat == <<V(4, 1, 1), V(4, 7, 1), V(4, 1, 7)>>

\* a small tilted triangle
TriSmall == <<V(1, 1, 1), V(3, 1, 2), V(1, 3, 3)>>

\* a large tilted triangle
TriLarge == <<V(0, 0, 0), V(8, 6, 2), V(2, 8, 8)>>

\* a zero-area triangle: two coincident vertices
TriDegenerate == <<V(2, 2, 2), V(2, 2, 2), V(6, 6, 6)>>

TrianglePool == {TriFlat, TriSmall, TriLarge, TriDegenerate}

\* a triangle across the middle of the box of TriLarge
TriMid == <<V(1, 5, 3), V(1, 7, 3), V(5, 7, 6)>>

\* a small triangle in the plane x = 4 cells, within the extents of TriFlat
TriFlatInner == <<V(4, 2, 2), V(4, 2, 3), V(4, 3, 2)>>

\* the cube [0, 2 cells]^3: 8 vertices, 2 triangles on each of the 6 faces
CubeCorner(n) == V(2 * ((n - 1) \div 4), 2 * (((n - 1) \div 2) % 2), 2 * ((n - 1) % 2))

CubeMesh ==
    <<  <<CubeCorner(1), CubeCorner(2), CubeCorner(3)>>, <<CubeCorner(2), CubeCorner(3), CubeCorner(4)>>,
        <<CubeCorner(5), CubeCorner(6), CubeCorner(7)>>, <<CubeCorner(6), CubeCorner(7), CubeCorner(8)>>,
        <<CubeCorner(1), CubeCorner(2), CubeCorner(5)>>, <<CubeCorner(2), CubeCorner(5), CubeCorner(6)>>,
        <<CubeCorner(3), CubeCorner(4), CubeCorner(7)>>, <<CubeCorner(4), CubeCorner(7), CubeCorner(8)>>,
        <<CubeCorner(1), CubeCorner(3), CubeCorner(5)>>, <<CubeCorner(3), CubeCorner(5), CubeCorner(7)>>,
        <<CubeCorner(2), CubeCorner(4), CubeCorner(6)>>, <<CubeCorner(4), CubeCorner(6), CubeCorner(8)>>  >>

Meshes ==
    {CubeMesh, <<TriLarge, TriMid>>, <<TriMid, TriLarge>>, <<TriFlat, TriFlatInner>>}
    \cup UNION {[1..n -> TrianglePool] : n \in 1..MaxFaces}

\* the meshes voxelized at every depth up to MaxDepth
DeepMeshes == {CubeMesh, <<TriSmall, TriLarge>>}

\* the calls voxelize(mesh, division_level) of the model; -1 stands for the
\* negative depths
GridInputs ==
    (Meshes \X ((-1)..MaxMeshDepth)) \cup (DeepMeshes \X ((-1)..MaxDepth))

\* cmds.exactWorldBoundingBox(mesh_name): the extents over all the mesh's vertices
exactWorldBoundingBox(mesh) ==
    LET pts == {mesh[f][k] : f \in 1..Len(mesh), k \in 1..3}
        lo(c) == CHOOSE m \in {p[c] : p \in pts} : \A p \in pts : m <= p[c]
        hi(c) == CHOOSE m \in {p[c] : p \in pts} : \A p \in pts : m >= p[c]
    IN  [min_x |-> lo(1), min_y |-> lo(2), min_z |-> lo(3),
         max_x |-> hi(1), max_y |-> hi(2), max_z |-> hi(3)]

Max3(a, b, c) == IF a >= b /\ a >= c THEN a ELSE IF b >= c THEN b ELSE c

\* voxelSimple.py:17-29: the root box, a cube of half-length hl around the mesh
RootAABB(mesh) ==
    LET bb == exactWorldBoundingBox(mesh)
        cx == Half(bb.max_x + bb.min_x)
        cy == Half(bb.max_y + bb.min_y)
        cz == Half(bb.max_z + bb.min_z)
        hxx == Half(bb.max_x - bb.min_x)
        hy == Half(bb.max_y - bb.min_y)
        hz == Half(bb.max_z - bb.min_z)
        hl == Max3(hxx, hy, hz)
    IN  AABB(cx, cy, cz, hl, hl, hl, 0)

MeshHx(mesh) ==
    LET bb == exactWorldBoundingBox(mesh) IN Half(bb.max_x - bb.min_x)

-----------------------------------------------------------------------------
(* voxelSimple.py: voxelize *)

\* the variables of the other programs of the repository, at rest
OctIdle ==
    /\ num_divisions = 0
    /\ oct_tree = <<>>
    /\ oct_tree_nodes = <<>>
    /\ voxel_locations = {}
    /\ face_index = 0
    /\ vtx_order = "by_face"

CallIdle == call = [fn |-> "none"]

MayaIdle ==
    /\ minecraft = FALSE
    /\ verts = <<>>
    /\ vert_pos = 0
    /\ voxels = <<>>
    /\ voxelMap = {}

PartIdle ==
    /\ numpartitions = [type |-> "int", val |-> 5]
    /\ files = <<>>
    /\ file_pos = 0
    /\ partitions = <<>>
    /\ partition_index = 0

GridIdle ==
    /\ pc = "idle"
    /\ faces = <<>>
    /\ division_level = 0
    /\ hx = 0
    /\ voxel_lattice = <<>>
    /\ vox_map = <<>>
    /\ i = 0
    /\ polls = 0
    /\ passes = 0
    /\ isCancelled = FALSE
    /\ progress = "none"
    /\ created = {}
    /\ raised = "none"
    /\ calls = 0
    /\ tests = 0

GridInit ==
    /\ pc = "start"
    /\ \E inp \in GridInputs :
           /\ faces = inp[1]
           /\ division_level = inp[2]
    /\ hx = 0
    /\ voxel_lattice = <<>>
    /\ vox_map = <<>>
    /\ i = 0
    /\ polls = 0
    /\ passes = 0
    /\ isCancelled = FALSE
    /\ progress = "none"
    /\ created = {}
    /\ raised = "none"
    /\ calls = 1
    /\ tests = 0
    /\ OctIdle
    /\ MayaIdle
    /\ PartIdle
    /\ CallIdle

\* voxelSimple.py:17-30
BoundingBox ==
    /\ pc = "start"
    /\ hx' = MeshHx(faces)
    /\ voxel_lattice' = <<RootAABB(faces)>>
    /\ pc' = "subdivide"
    /\ UNCHANGED <<passes, division_level, faces, vox_map, i, polls, isCancelled,
                   progress, created, raised, call, octVars, calls, tests, restVars>>

\* the pass of the while loop without the append of line 36: the box popped
\* last is lost
SubdivideStep_drop ==
    /\ pc = "subdivide"
    /\ passes' = passes + 1
    /\ IF voxel_lattice = <<>>
       THEN /\ pc' = "faces"
            /\ UNCHANGED voxel_lattice
       ELSE LET current_voxel == Head(voxel_lattice)
                popped == Tail(voxel_lattice)
            IN  IF current_voxel.subdivs < division_level
                THEN /\ voxel_lattice' = popped \o subdivide(current_voxel)
                     /\ pc' = "subdivide"
                ELSE /\ voxel_lattice' = popped
                     /\ pc' = "faces"
    /\ UNCHANGED <<division_level, faces, hx, vox_map, i, polls, isCancelled,
                   progress, created, raised, call, octVars, calls, tests, restVars>>

\* voxelSimple.py:31-37: one pass of the while loop
SubdivideStep ==
    /\ pc = "subdivide"
    /\ passes' = passes + 1
    /\ IF voxel_lattice = <<>>
       THEN /\ pc' = "faces"
            /\ UNCHANGED voxel_lattice
       ELSE LET current_voxel == Head(voxel_lattice)
                popped == Tail(voxel_lattice)
            IN  IF current_voxel.subdivs < division_level
                THEN /\ voxel_lattice' = popped \o subdivide(current_voxel)
                     /\ pc' = "subdivide"
                ELSE /\ voxel_lattice' = Append(popped, current_voxel)
                     /\ pc' = "faces"
    /\ UNCHANGED <<division_level, faces, hx, vox_map, i, polls, isCancelled,
                   progress, created, raised, call, octVars, calls, tests, restVars>>

\* the map is not emptied: line 45 left out
BeginFaces_keep_map ==
    /\ pc = "faces"
    /\ vox_map' = vox_map
    /\ i' = 0
    /\ progress' = "open"
    /\ isCancelled' = FALSE
    /\ pc' = IF Len(faces) = 0 THEN "fill" ELSE "poll"
    /\ UNCHANGED <<passes, division_level, faces, hx, voxel_lattice, polls,
                   created, raised, call, octVars, calls, tests, restVars>>

\* voxelSimple.py:42-49, 85-87: triangulate, empty map, open a new progress
\* window (progress 0, not cancelled)
BeginFaces ==
    /\ pc = "faces"
    /\ vox_map' = <<>>
    /\ i' = 0
    /\ progress' = "open"
    /\ isCancelled' = FALSE
    /\ pc' = IF Len(faces) = 0 THEN "fill" ELSE "poll"
    /\ UNCHANGED <<passes, division_level, faces, hx, voxel_lattice, polls,
                   created, raised, call, octVars, calls, tests, restVars>>

\* the user presses cancel in the interruptable progress window
UserCancel ==
    /\ progress = "open"
    /\ pc \in {"poll", "test"}
    /\ ~isCancelled
    /\ isCancelled' = TRUE
    /\ UNCHANGED <<passes, pc, division_level, faces, hx, voxel_lattice, vox_map, i, polls,
                   progress, created, raised, call, octVars, calls, tests, restVars>>

\* voxelSimple.py:89-94: updateProgressWindow
updateProgressWindow(cancelled) == IF cancelled THEN FALSE ELSE TRUE

\* the poll with the map emptied when the loop is left by break
Poll_discard ==
    /\ pc = "poll"
    /\ polls' = polls + 1
    /\ pc' = IF ~updateProgressWindow(isCancelled) THEN "fill" ELSE "test"
    /\ vox_map' = IF ~updateProgressWindow(isCancelled) THEN <<>> ELSE vox_map
    /\ UNCHANGED <<passes, division_level, faces, hx, voxel_lattice, i, isCancelled,
                   progress, created, raised, call, octVars, calls, tests, restVars>>

\* voxelSimple.py:51-52: the poll at the top of the face loop
Poll ==
    /\ pc = "poll"
    /\ polls' = polls + 1
    /\ pc' = IF ~updateProgressWindow(isCancelled) THEN "fill" ELSE "test"
    /\ UNCHANGED <<passes, division_level, faces, hx, voxel_lattice, vox_map, i, isCancelled,
                   progress, created, raised, call, octVars, calls, tests, restVars>>

\* the body of the voxel loop with the lookup made for any key at all: once a
\* voxel is marked every voxel is passed over
VoxelBody_first_only(tri, voxel, st) ==
    IF DOMAIN st.map # {} THEN st
    ELSE IF intersects(tri, voxel)
         THEN [map |-> (voxel.center :> voxel.half_vector) @@ st.map,
               tests |-> st.tests + 1]
         ELSE [map |-> st.map, tests |-> st.tests + 1]

\* the body of the voxel loop without the lookup of lines 60-64: every voxel is
\* tested against every triangle and its entry follows the last test
VoxelBody_retest(tri, voxel, st) ==
    IF intersects(tri, voxel)
    THEN [map |-> (voxel.center :> voxel.half_vector) @@ st.map,
          tests |-> st.tests + 1]
    ELSE [map |-> [c \in (DOMAIN st.map) \ {voxel.center} |-> st.map[c]],
          tests |-> st.tests + 1]

\* voxelSimple.py:60-67: the body of the voxel loop for one voxel.  st holds the
\* map and the number of calls of intersects made so far; a voxel whose centre
\* is a key of the map is passed over by the continue of line 62
VoxelBody(tri, voxel, st) ==
    IF voxel.center \in DOMAIN st.map THEN st
    ELSE IF intersects(tri, voxel)
         THEN [map |-> (voxel.center :> voxel.half_vector) @@ st.map,
               tests |-> st.tests + 1]
         ELSE [map |-> st.map, tests |-> st.tests + 1]

\* the voxel loop over the voxels lo..hi in order: the range is split in two
\* halves, the second begun with what the first has left
RECURSIVE VoxelRange(_, _, _, _, _)
VoxelRange(tri, lattice, lo, hi, st) ==
    IF lo > hi THEN st
    ELSE IF lo = hi THEN VoxelBody(tri, lattice[lo], st)
    ELSE LET mid == (lo + hi) \div 2
             first == VoxelRange(tri, lattice, lo, mid, st)
         IN  IF first.tests >= 0 THEN VoxelRange(tri, lattice, mid + 1, hi, first)
             ELSE first

\* voxelSimple.py:59-67: the voxel loop for one triangle, from voxel k on
VoxelLoop(tri, lattice, k, st) == VoxelRange(tri, lattice, k, Len(lattice), st)

\* voxelSimple.py:53-69: the body of the face loop for face i
TestFace ==
    /\ pc = "test"
    /\ LET tri_verts == faces[i + 1]
       IN  IF TriangleRaises(tri_verts[1], tri_verts[2], tri_verts[3])
           THEN /\ raised' = "ZeroDivisionError"
                /\ pc' = "raised"
                /\ UNCHANGED <<vox_map, i, tests>>
           ELSE LET tri == Triangle(tri_verts[1], tri_verts[2], tri_verts[3])
                    after == VoxelLoop(tri, voxel_lattice, 1,
                                       [map |-> vox_map, tests |-> tests])
                IN  /\ vox_map' = after.map
                    /\ tests' = after.tests
                    /\ i' = i + 1
                    /\ pc' = IF i + 1 < Len(faces) THEN "poll" ELSE "fill"
                    /\ UNCHANGED raised
    /\ UNCHANGED <<passes, division_level, faces, hx, voxel_lattice, polls, isCancelled,
                   progress, created, call, octVars, calls, restVars>>

\* voxelSimple.py:71-79: one cube per entry of vox_map; sx/hx is evaluated first
FillVoxels ==
    /\ pc = "fill"
    /\ IF vox_map # <<>> /\ hx = 0
       THEN /\ raised' = "ZeroDivisionError"
            /\ pc' = "raised"
            /\ UNCHANGED created
       ELSE /\ created' = DOMAIN vox_map
            /\ pc' = "kill"
            /\ UNCHANGED raised
    /\ UNCHANGED <<passes, division_level, faces, hx, voxel_lattice, vox_map, i, polls,
                   isCancelled, progress, call, octVars, calls, tests, restVars>>

\* voxelSimple.py:81, 96-98: killProgressWindow
killProgressWindow ==
    /\ pc = "kill"
    /\ progress' = "complete"
    /\ pc' = "done"
    /\ UNCHANGED <<passes, division_level, faces, hx, voxel_lattice, vox_map, i, polls,
                   isCancelled, created, raised, call, octVars, calls, tests, restVars>>

Init == GridInit

Next ==
    \/ BoundingBox
    \/ SubdivideStep
    \/ BeginFaces
    \/ UserCancel
    \/ Poll
    \/ TestFace
    \/ FillVoxels
    \/ killProgressWindow

Spec == Init /\ [][Next]_vars

\* the calls of voxelize made after the first one of a session
AgainInputs ==
    {<<TriSmall>>, <<TriLarge, TriSmall>>, <<TriFlat>>, <<TriDegenerate>>} \X (0..1)

\* voxelSimple.py:10: voxelize is called again after the previous call returned
\* or raised.  The locals of the new call are unbound until the call assigns
\* them; the model leaves in them what the previous call left, so that a read
\* before the assignment shows.  Nothing of module level is written by a call.
voxelizeAgain ==
    /\ pc \in {"done", "raised"}
    /\ calls < MaxCalls
    /\ calls' = calls + 1
    /\ \E inp \in AgainInputs :
           /\ faces' = inp[1]
           /\ division_level' = inp[2]
    /\ pc' = "start"
    /\ raised' = "none"
    /\ created' = {}
    /\ polls' = 0
    /\ passes' = 0
    /\ tests' = 0
    /\ UNCHANGED <<hx, voxel_lattice, vox_map, i, isCancelled, progress, call, octVars,
                   restVars>>

SessionNext ==
    \/ Next
    \/ voxelizeAgain

\* the first call of a session
SessionInit ==
    /\ GridInit
    /\ division_level <= MaxMeshDepth

SessionSpec == SessionInit /\ [][SessionNext]_vars

-----------------------------------------------------------------------------
(* Properties of the grid driver *)

\* every division by 2.0 the driver makes is exact in the model
HalvingExact ==
    \A k \in 1..Len(voxel_lattice) :
        LET b == voxel_lattice[k]
        IN  \A a \in 1..3 :
                /\ b.half_vector[a] * Pow(2, b.subdivs) = voxel_lattice[1].half_vector[a] * Pow(2, voxel_lattice[1].subdivs)
                /\ b.subdivs < division_level => b.half_vector[a] % 2 = 0

\* the subdivision loop of voxelize has been left
LoopExited == pc \notin {"start", "subdivide"}

\* the face loop has been left (by its end or by break), no exception raised
FacesLeft == pc \in {"fill", "kill", "done"}

\* the face loop ran over every face
FacesDone == FacesLeft /\ i = Len(faces)

\* the face loop was left by the break of line 52, at face i
Stopped == FacesLeft /\ i < Len(faces)

\* q lies in the open box of centre c and half vector h
InBox(c, h, q) == \A a \in 1..3 : c[a] - h[a] < q[a] /\ q[a] < c[a] + h[a]

\* the points of odd offset from the minimum corner of box: one in each finest cell
Samples(box) ==
    LET offs(a) == {box.center[a] - box.half_vector[a] + 2 * n + 1 :
                        n \in 0..(box.half_vector[a] - 1)}
    IN  {SimpleVec(x, y, z) : x \in offs(1), y \in offs(2), z \in offs(3)}

\* C1: voxelizing the cube mesh (8 vertices, 12 triangles on its faces) at
\* depth 1 marks exactly 8 leaves, each with half the root's half-extent, and
\* every point of the cube off the leaf planes lies in exactly one marked leaf
C1_CubeDepthOne ==
    (FacesDone /\ faces = CubeMesh /\ division_level = 1) =>
        LET root == RootAABB(faces)
        IN  /\ Cardinality(DOMAIN vox_map) = 8
            /\ \A c \in DOMAIN vox_map :
                   \A a \in 1..3 : 2 * vox_map[c][a] = root.half_vector[a]
            /\ \A q \in Samples(root) :
                   Cardinality({c \in DOMAIN vox_map : InBox(c, vox_map[c], q)}) = 1

\* the centres of the uniform grid of depth d in root
GridCentres(root, d) ==
    LET n == Pow(2, d)
        h(a) == root.half_vector[a] \div n
        cs(a) == {root.center[a] - root.half_vector[a] + (2 * m + 1) * h(a) : m \in 0..(n - 1)}
    IN  {SimpleVec(x, y, z) : x \in cs(1), y \in cs(2), z \in cs(3)}

LatticeCentres == {voxel_lattice[k].center : k \in 1..Len(voxel_lattice)}

\* on leaving the loop the lattice is the uniform grid of depth division_level
LatticeComplete ==
    (LoopExited /\ division_level >= 0) =>
        /\ Len(voxel_lattice) = Pow(8, division_level)
        /\ \A k \in 1..Len(voxel_lattice) : voxel_lattice[k].subdivs = division_level
        /\ LatticeCentres = GridCentres(RootAABB(faces), division_level)

\* the number of boxes of depth less than d in the uniform subdivision
RECURSIVE InnerBoxes(_)
InnerBoxes(d) == IF d <= 0 THEN 0 ELSE Pow(8, d - 1) + InnerBoxes(d - 1)

\* the loop makes one pass for each box it subdivides and one to leave: in a
\* pass that does not leave, a box of depth less than division_level went
LoopTerminates ==
    /\ passes <= InnerBoxes(division_level) + 1
    /\ LoopExited => passes = InnerBoxes(division_level) + 1
    /\ pc = "subdivide" => voxel_lattice # <<>>

\* C7: for every depth D >= 0 the subdivision loop of voxelize terminates, and
\* on exit the lattice holds exactly 8^D boxes, all of subdivision count D,
\* none missing
C7_SubdivisionLoop == LatticeComplete /\ LoopTerminates

C7_Witness ==
    /\ LoopExited
    /\ division_level = MaxDepth
    /\ Len(voxel_lattice) = Pow(8, MaxDepth)

\* face f lies in the plane of coordinate p on axis a
LiesInPlane(f, a, p) == \A k \in 1..3 : f[k][a] = p

\* leaf up is the upper one of two siblings that share a plane of axis a
UpperSibling(up, a) ==
    LET root == RootAABB(faces)
        h == up.half_vector[a]
    IN  /\ up.subdivs >= 1
        /\ (((up.center[a] - h) - (root.center[a] - root.half_vector[a])) \div (2 * h)) % 2 = 1

\* the sibling of up on the lower side of their shared plane of axis a
LowerCentre(up, a) == [up.center EXCEPT ![a] = @ - 2 * up.half_vector[a]]

\* some vertex of f lies within the face of leaf shared on axis a, off its edges
TouchesSharedFace(f, leaf, a) ==
    \E k \in 1..3 : \A b \in (1..3) \ {a} :
        /\ leaf.center[b] - leaf.half_vector[b] < f[k][b]
        /\ f[k][b] < leaf.center[b] + leaf.half_vector[b]

\* C9: a triangle lying exactly in the plane shared by two sibling leaves is
\* assigned to the leaf on the upper side of the plane, and never to both
C9_BoundaryTriangleToUpper ==
    FacesDone =>
        \A f \in 1..Len(faces), k \in 1..Len(voxel_lattice), a \in 1..3 :
            LET up == voxel_lattice[k]
            IN  (/\ UpperSibling(up, a)
                 /\ LiesInPlane(faces[f], a, up.center[a] - up.half_vector[a])
                 /\ TouchesSharedFace(faces[f], up, a))
                => /\ up.center \in DOMAIN vox_map
                   /\ Len(faces) = 1 => LowerCentre(up, a) \notin DOMAIN vox_map

\* the leaves that intersect one of the first n faces
MarkedBy(n) ==
    {voxel_lattice[k].center : k \in
        {k \in 1..Len(voxel_lattice) :
            \E f \in 1..n :
                intersects(Triangle(faces[f][1], faces[f][2], faces[f][3]), voxel_lattice[k])}}

\* the stop signal has been polled once for each face begun, before its test
PolledOncePerFace ==
    /\ pc = "poll" => polls = i
    /\ pc = "test" => polls = i + 1
    /\ Stopped => polls = i + 1
    /\ FacesDone => polls = i

\* after the face loop the map holds what faces 1..i marked, and it is what
\* the cubes are created from
OccupancyKept ==
    /\ FacesLeft => DOMAIN vox_map = MarkedBy(i)
    /\ pc \in {"kill", "done"} => created = DOMAIN vox_map

\* a poll that reports stop leaves the loop at once, the map as it is
BreakAtOnce ==
    (pc = "poll" /\ isCancelled) => (pc' = "fill" /\ i' = i /\ vox_map' = vox_map)

\* C10: the stop signal is polled exactly once per triangle, before the
\* triangle is tested; when it reports stop at triangle k the loop ends at
\* once and the occupancy of triangles 0..k-1 goes to the cube creation
C10_PollAndPartialResult ==
    /\ [](PolledOncePerFace /\ OccupancyKept)
    /\ [][BreakAtOnce]_vars

C10_Witness ==
    /\ pc = "kill"
    /\ Stopped
    /\ i >= 1
    /\ created # {}

\* face i, the one the loop body is at, has zero area
FaceMalformed ==
    /\ i < Len(faces)
    /\ TriangleRaises(faces[i + 1][1], faces[i + 1][2], faces[i + 1][3])

\* C11: the body of the face loop, run on a zero-area triangle, skips it: no
\* exception leaves voxelize, the map is as it was and the loop goes on to the
\* next triangle (the pass is not aborted)
C11_MalformedSkipped ==
    [][(pc = "test" /\ pc' # "test" /\ FaceMalformed)
          => /\ raised' = "none"
             /\ pc' \in {"poll", "fill"}
             /\ i' = i + 1
             /\ vox_map' = vox_map]_vars

\* C13: a run that the user cancelled in the face loop ends early and its
\* result is marked incomplete: it is not reported as a complete voxelization
C13_CancelMarkedIncomplete ==
    (pc = "done" /\ Stopped) => progress # "complete"

\* C17: voxelize called with a negative depth fails with ConfigError before it
\* builds anything; it never completes as if a depth had been given
C17_NegativeDepthIsConfigError ==
    division_level < 0 =>
        /\ pc \in {"start", "raised"}
        /\ pc = "raised" => raised = "ConfigError"

\* what the code does with a negative depth: the lattice it tests the faces
\* against is the root box alone, as for depth 0
NegativeDepthRunsAsZero ==
    (division_level < 0 /\ LoopExited) =>
        /\ Len(voxel_lattice) = 1
        /\ voxel_lattice[1] = RootAABB(faces)

\* the leaves of depth d under box, by recursion on the box alone
RECURSIVE LeafSet(_, _)
LeafSet(box, d) ==
    IF box.subdivs >= d THEN {box}
    ELSE UNION {LeafSet(subdivide(box)[n], d) : n \in 1..8}

\* the cubes a call on mesh at depth d creates when its face loop ran over the
\* first n faces: a function of the call's own arguments
CubesOf(mesh, d, n) ==
    {leaf.center : leaf \in
        {leaf \in LeafSet(RootAABB(mesh), d) :
            \E f \in 1..n : intersects(Triangle(mesh[f][1], mesh[f][2], mesh[f][3]), leaf)}}

NonDegenerateMesh ==
    \A f \in 1..Len(faces) : ~TriangleRaises(faces[f][1], faces[f][2], faces[f][3])

\* C29: for a mesh of non-degenerate triangles, a mesh flat in x included, the
\* call raises no arithmetic error; once the triangle loop has ended one cube
\* per entry of the occupancy map is created at the leaf's centre, and the
\* progress window is closed after that
C29_FillCreatesOnePerEntry ==
    NonDegenerateMesh =>
        /\ raised = "none"
        /\ pc \in {"kill", "done"} => created = DOMAIN vox_map
        /\ pc = "done" => progress = "complete"

\* what the code has for C29: the cubes are created and the window is closed
\* unless the mesh is flat in x and a leaf is marked; then line 75 divides by
\* hx = 0, no cube is created and the window stays open
FlatMeshRaisesInFill ==
    NonDegenerateMesh =>
        /\ raised = "ZeroDivisionError" =>
               hx = 0 /\ vox_map # <<>> /\ created = {} /\ progress = "open"
        /\ pc \in {"kill", "done"} =>
               created = DOMAIN vox_map /\ (hx # 0 \/ vox_map = <<>>)
        /\ pc = "done" => progress = "complete"


\* the voxels of the lattice whose centre is a key of the map
MarkedVoxels == {k \in 1..Len(voxel_lattice) : voxel_lattice[k].center \in DOMAIN vox_map}

\* a pass of the face loop body keeps every entry of the map as it is, and
\* calls intersects once for each voxel that was not marked, for no other
MemoizedPass ==
    (pc = "test" /\ pc' # "raised" /\ pc' # "test") =>
        /\ \A c \in DOMAIN vox_map : c \in DOMAIN vox_map' /\ vox_map'[c] = vox_map[c]
        /\ tests' = tests + (Len(voxel_lattice) - Cardinality(MarkedVoxels))

\* from the face loop to the end of the call the map is not written but by the
\* face loop body
MapKept ==
    (pc \in {"poll", "fill", "kill"}) => vox_map' = vox_map

\* one cube for each entry of the map, one entry for each marked voxel: no two
\* cubes at one centre
OneDescriptorPerLeaf ==
    /\ LoopExited => Cardinality(LatticeCentres) = Len(voxel_lattice)
    /\ pc \in {"kill", "done"} =>
           /\ created = DOMAIN vox_map
           /\ Cardinality(created) = Cardinality(MarkedVoxels)
           /\ \A c \in created :
                  Cardinality({k \in 1..Len(voxel_lattice) : voxel_lattice[k].center = c}) = 1

\* C21: in the triangle loop the occupancy map is insertion-only and memoized
\* by leaf: a leaf in the map is not tested against a later triangle, its entry
\* is neither removed nor overwritten, and the cubes created are one per
\* marked leaf, no two at one centre
C21_MapInsertionOnly ==
    /\ [][MemoizedPass /\ MapKept]_vars
    /\ []OneDescriptorPerLeaf

\* the second triangle was run over a lattice of 8 leaves of which the first
\* had marked one that the second intersects too
C21_Witness ==
    /\ pc = "fill"
    /\ i = 2
    /\ faces[1] # faces[2]
    /\ Len(voxel_lattice) = 8
    /\ tests < 2 * Len(voxel_lattice)
    /\ \E k \in 1..Len(voxel_lattice) :
           /\ voxel_lattice[k].center \in MarkedBy(1)
           /\ intersects(Triangle(faces[2][1], faces[2][2], faces[2][3]), voxel_lattice[k])

\* the face loop of lines 50-69 run to its end over mesh from face k on, no
\* stop reported
RECURSIVE FaceLoop(_, _, _, _)
FaceLoop(mesh, lattice, k, st) ==
    IF k > Len(mesh) THEN st
    ELSE LET tri == Triangle(mesh[k][1], mesh[k][2], mesh[k][3])
             after == VoxelLoop(tri, lattice, 1, st)
         IN  IF after.tests >= 0 THEN FaceLoop(mesh, lattice, k + 1, after) ELSE after

Reverse(seq) == [k \in 1..Len(seq) |-> seq[Len(seq) + 1 - k]]

\* the centres of the leaves that intersect a triangle of the set tris, each
\* leaf tested against each triangle
IntersectedBy(tris) ==
    {voxel_lattice[k].center : k \in
        {k \in 1..Len(voxel_lattice) :
            \E t \in tris : intersects(Triangle(t[1], t[2], t[3]), voxel_lattice[k])}}

\* C22: when the triangle loop has run to its end the occupied leaves are the
\* leaves that intersect at least one triangle of the mesh, whatever the
\* lookup of the map left out, and the loop run over the triangles in the
\* opposite order marks the same leaves
C22_MemoKeepsResult ==
    FacesDone =>
        /\ DOMAIN vox_map = IntersectedBy({faces[f] : f \in 1..Len(faces)})
        /\ DOMAIN vox_map =
               DOMAIN FaceLoop(Reverse(faces), voxel_lattice, 1, [map |-> <<>>, tests |-> 0]).map

\* two different triangles, the loop at its end: a leaf that both intersect
\* was tested against the first only, and a leaf is marked by the second alone
C22_Witness ==
    /\ pc = "kill"
    /\ FacesDone
    /\ Len(faces) = 2
    /\ faces[1] # faces[2]
    /\ MarkedBy(1) # DOMAIN vox_map
    /\ IntersectedBy({faces[2]}) \cap MarkedBy(1) # {}
    /\ tests < 2 * Len(voxel_lattice)

-----------------------------------------------------------------------------
(* satTest.py: the functions of Shape and AABB, applied to given arguments *)

Ranges == {r \in (0..MaxRange) \X (0..MaxRange) : r[1] <= r[2]}

SatPoints == {SimpleVec(x, y, z) : x, y, z \in (-MaxCoord)..MaxCoord}

\* pairs of edge vectors, none of zero area: in a cardinal plane, with one
\* cardinal edge, tilted
TriShapes ==
    { <<SimpleVec(1, 0, 0), SimpleVec(0, 1, 0)>>,
      <<SimpleVec(0, 2, 0), SimpleVec(0, 1, 1)>>,
      <<SimpleVec(1, 0, 0), SimpleVec(0, 1, 1)>>,
      <<SimpleVec(2, 1, 0), SimpleVec(0, 1, 2)>>,
      <<SimpleVec(1, 1, 1), SimpleVec(-1, 1, 0)>>,
      <<SimpleVec(3, 0, 1), SimpleVec(0, 3, -1)>> }

SatTriangles ==
    {Triangle(v, VecAdd(v, e[1]), VecAdd(v, e[2])) : v \in SatPoints, e \in TriShapes}

SatBoxes == {AABB(0, 0, 0, 1, 1, 1, 0), AABB(0, 0, 0, 2, 2, 2, 0), AABB(1, 0, -1, 1, 2, 2, 0)}

SubdivideBoxes ==
    {AABB(c[1], c[2], c[3], 2 * h[1], 2 * h[2], 2 * h[3], d) :
        c \in {SimpleVec(0, 0, 0), SimpleVec(2, -4, 6)},
        h \in (1..MaxHalf) \X (1..MaxHalf) \X (1..MaxHalf),
        d \in 0..1}

\* vertices for the calls of Triangle(...): the corners of the unit cube and
\* two points in line with some of them
TriPoints ==
    {SimpleVec(x, y, z) : x, y, z \in 0..1} \cup {SimpleVec(2, 2, 2), SimpleVec(2, 0, 0)}

\* the shapes given to project: every list of 1 to 3 of these vertices, in
\* every order, and a box
ProjectPoints ==
    {SimpleVec(0, 0, 0), SimpleVec(1, -2, 3), SimpleVec(-2, 1, 1), SimpleVec(3, 3, -1),
     SimpleVec(1, 1, 1)}

ProjectShapes ==
    {Shape(vs) : vs \in UNION {[1..n -> ProjectPoints] : n \in 1..3}}
    \cup {AABB(1, 0, -1, 1, 2, 2, 0)}

ProjectAxes ==
    {SimpleVec(1, 0, 0), SimpleVec(0, 1, 0), SimpleVec(0, 0, 1),
     SimpleVec(1, 1, 0), SimpleVec(-1, 2, -2), SimpleVec(0, -1, 0)}

SatCalls ==
    {[fn |-> "_overlap", args |-> <<r0, r1>>] : r0 \in Ranges, r1 \in Ranges}
    \cup {[fn |-> "project", args |-> <<sh, ax>>] : sh \in ProjectShapes, ax \in ProjectAxes}
    \cup {[fn |-> "Triangle", args |-> <<v0, v1, v2>>] : v0, v1, v2 \in TriPoints}
    \cup {[fn |-> "intersects", args |-> <<t, b>>] : t \in SatTriangles, b \in SatBoxes}
    \cup {[fn |-> "intersects", args |-> <<b, t>>] : t \in SatTriangles, b \in SatBoxes}
    \cup {[fn |-> "subdivide", args |-> <<b>>] : b \in SubdivideBoxes}

SatInit ==
    /\ GridIdle
    /\ OctIdle
    /\ MayaIdle
    /\ PartIdle
    /\ \E c \in SatCalls :
           call = [fn |-> c.fn, args |-> c.args, done |-> FALSE, ret |-> "none"]

Pending(fn) == call.fn = fn /\ ~call.done

Returned(fn) == call.fn = fn /\ call.done

\* satTest.py:195-212
Call_overlap ==
    /\ Pending("_overlap")
    /\ call' = [call EXCEPT !.done = TRUE,
                            !.ret = _overlap(call.args[1], call.args[2])]
    /\ UNCHANGED <<pc, division_level, faces, hx, voxel_lattice, vox_map, i, polls,
                   passes, isCancelled, progress, created, raised, octVars, calls, tests, restVars>>

\* satTest.py:214-230; quick is the value of the test of line 221
Call_intersects ==
    /\ Pending("intersects")
    /\ call' = [fn |-> call.fn, args |-> call.args, done |-> TRUE,
                quick |-> _quick_rejection(call.args[1], call.args[2]),
                ret |-> intersects(call.args[1], call.args[2])]
    /\ UNCHANGED <<pc, division_level, faces, hx, voxel_lattice, vox_map, i, polls,
                   passes, isCancelled, progress, created, raised, octVars, calls, tests, restVars>>

\* satTest.py:258-277
Call_subdivide ==
    /\ Pending("subdivide")
    /\ call' = [call EXCEPT !.done = TRUE, !.ret = subdivide(call.args[1])]
    /\ UNCHANGED <<pc, division_level, faces, hx, voxel_lattice, vox_map, i, polls,
                   passes, isCancelled, progress, created, raised, octVars, calls, tests, restVars>>

\* satTest.py:284-295: Triangle(x0, y0, z0, x1, y1, z1, x2, y2, z2); the
\* exception of normalize (line 309 or 323) is not caught
Call_Triangle ==
    /\ Pending("Triangle")
    /\ call' = [call EXCEPT
                  !.done = TRUE,
                  !.ret = IF TriangleRaises(call.args[1], call.args[2], call.args[3])
                          THEN [raised |-> "ZeroDivisionError"]
                          ELSE [raised |-> "none",
                                value |-> Triangle(call.args[1], call.args[2], call.args[3])]]
    /\ UNCHANGED <<pc, division_level, faces, hx, voxel_lattice, vox_map, i, polls,
                   passes, isCancelled, progress, created, raised, octVars, calls, tests, restVars>>

\* satTest.py:178-193
Call_project ==
    /\ Pending("project")
    /\ call' = [call EXCEPT !.done = TRUE, !.ret = project(call.args[1], call.args[2])]
    /\ UNCHANGED <<pc, division_level, faces, hx, voxel_lattice, vox_map, i, polls,
                   passes, isCancelled, progress, created, raised, octVars, calls, tests, restVars>>

SatNext ==
    \/ Call_project
    \/ Call_Triangle
    \/ Call_overlap
    \/ Call_intersects
    \/ Call_subdivide

SatSpec == SatInit /\ [][SatNext]_vars

-----------------------------------------------------------------------------
(* Properties of the functions of satTest.py *)

\* the triangle and the box of an intersects call, whichever of them is self
TriOf(c) == IF c.args[1].kind = "Triangle" THEN c.args[1] ELSE c.args[2]

BoxOf(c) == IF c.args[1].kind = "AABB" THEN c.args[1] ELSE c.args[2]

\* v lies in box, by the half-open rule [min, max) on every axis
InsideHalfOpen(v, box) ==
    \A a \in 1..3 :
        /\ box.center[a] - box.half_vector[a] <= v[a]
        /\ v[a] < box.center[a] + box.half_vector[a]

\* v lies in the interior of box
InsideOpen(v, box) ==
    \A a \in 1..3 :
        /\ box.center[a] - box.half_vector[a] < v[a]
        /\ v[a] < box.center[a] + box.half_vector[a]

\* C2: intersects returns True for a non-degenerate triangle and a box that
\* holds all the triangle's vertices (stated for the triangles with every
\* vertex in the box by the half-open rule and a vertex in its interior)
C2_InsideTriangleIntersects ==
    Returned("intersects") =>
        ((/\ \A k \in 1..3 : InsideHalfOpen(TriOf(call).vertices[k], BoxOf(call))
          /\ \E k \in 1..3 : InsideOpen(TriOf(call).vertices[k], BoxOf(call)))
            => call.ret = TRUE)

\* the triangles with every vertex in the interior of the box do intersect it
InteriorTriangleIntersects ==
    Returned("intersects") =>
        ((\A k \in 1..3 : InsideOpen(TriOf(call).vertices[k], BoxOf(call)))
            => call.ret = TRUE)

Min2(a, b) == IF a <= b THEN a ELSE b

Max2(a, b) == IF a >= b THEN a ELSE b

\* the ranges have a common part of positive length
ShareInterior(r0, r1) == Max2(r0[1], r1[1]) < Min2(r0[2], r1[2])

\* range r0 contains range r1
Contains(r0, r1) == r0[1] <= r1[1] /\ r1[2] <= r0[2]

\* the ranges meet in one point, the max of one and the min of the other
TouchAtEndpoint(r0, r1) == r0[2] = r1[1] \/ r1[2] = r0[1]

DisjointRanges(r0, r1) == r0[2] < r1[1] \/ r1[2] < r0[1]

\* C3: _overlap returns True for every two ranges that share interior and for
\* every two ranges one of which contains the other, in either argument order
\* (stated for the ranges of positive length)
C3_OverlapSharedInterior ==
    Returned("_overlap") =>
        LET r0 == call.args[1]
            r1 == call.args[2]
        IN  (/\ r0[1] < r0[2]
             /\ r1[1] < r1[2]
             /\ (ShareInterior(r0, r1) \/ Contains(r0, r1) \/ Contains(r1, r0)))
                => call.ret = TRUE

\* C4: _overlap returns False for two ranges that touch in one shared endpoint
\* and for two disjoint ranges, in either argument order
C4_OverlapTouchingIsFalse ==
    Returned("_overlap") =>
        LET r0 == call.args[1]
            r1 == call.args[2]
        IN  (TouchAtEndpoint(r0, r1) \/ DisjointRanges(r0, r1)) => call.ret = FALSE

C4_Witness ==
    /\ Returned("_overlap")
    /\ call.args[1][1] < call.args[1][2]
    /\ call.args[1][2] = call.args[2][1]
    /\ call.args[2][1] < call.args[2][2]
    /\ call.ret = FALSE

\* every vertex of s is below every vertex of t on some axis, or above
StrictlySeparated(s, t) ==
    \E a \in 1..3 :
        \/ \A m \in 1..Len(s.vertices), n \in 1..Len(t.vertices) :
               s.vertices[m][a] < t.vertices[n][a]
        \/ \A m \in 1..Len(s.vertices), n \in 1..Len(t.vertices) :
               s.vertices[m][a] > t.vertices[n][a]

\* C5: for a triangle and a box strictly separated on some axis
\* _quick_rejection returns True and intersects False; for a pair strictly
\* separated on no axis _quick_rejection returns False
C5_QuickRejection ==
    Returned("intersects") =>
        IF StrictlySeparated(call.args[1], call.args[2])
        THEN call.quick = TRUE /\ call.ret = FALSE
        ELSE call.quick = FALSE

C5_Witness ==
    /\ Returned("intersects")
    /\ StrictlySeparated(call.args[1], call.args[2])
    /\ call.quick = TRUE
    /\ call.ret = FALSE

Volume(b) == 8 * b.half_vector[1] * b.half_vector[2] * b.half_vector[3]

RECURSIVE SumVolumes(_, _)
SumVolumes(boxes, k) ==
    IF k > Len(boxes) THEN 0 ELSE Volume(boxes[k]) + SumVolumes(boxes, k + 1)

\* the unit cells of b, each named by its minimum corner
Cells(b) ==
    {SimpleVec(x, y, z) : x \in b.min_x..(b.max_x - 1),
                          y \in b.min_y..(b.max_y - 1),
                          z \in b.min_z..(b.max_z - 1)}

\* boxes a and b have no interior point in common
InteriorsDisjoint(a, b) ==
    \/ a.max_x <= b.min_x \/ b.max_x <= a.min_x
    \/ a.max_y <= b.min_y \/ b.max_y <= a.min_y
    \/ a.max_z <= b.min_z \/ b.max_z <= a.min_z

\* C6: subdivide returns exactly 8 boxes, each at depth+1 with every
\* half-extent halved; their volumes sum to the parent's, their union is the
\* parent and no two of them overlap in their interior
C6_SubdivideTiles ==
    Returned("subdivide") =>
        LET parent == call.args[1]
            kids == call.ret
        IN  /\ Len(kids) = 8
            /\ \A k \in 1..Len(kids) :
                   /\ kids[k].kind = "AABB"
                   /\ kids[k].subdivs = parent.subdivs + 1
                   /\ \A a \in 1..3 : 2 * kids[k].half_vector[a] = parent.half_vector[a]
                   /\ Cells(kids[k]) \subseteq Cells(parent)
            /\ SumVolumes(kids, 1) = Volume(parent)
            /\ \A p \in Cells(parent) : \E k \in 1..Len(kids) : p \in Cells(kids[k])
            /\ \A j, k \in 1..Len(kids) : j # k => InteriorsDisjoint(kids[j], kids[k])

C6_Witness ==
    /\ Returned("subdivide")
    /\ Len(call.ret) = 8
    /\ call.args[1].half_vector[1] # call.args[1].half_vector[2]
    /\ call.args[1].center # zero_vector

\* u, v, w lie on one line (two of them may coincide): some a*(v-u) = b*(w-u)
\* with a, b not both 0
Collinear(u, v, w) ==
    \E a, b \in (-2)..2 :
        /\ <<a, b>> # <<0, 0>>
        /\ VecScale(VecSub(v, u), a) = VecScale(VecSub(w, u), b)

\* C12: Triangle(...) on two coincident vertices, or on three collinear ones,
\* fails with InvalidGeometry; it never returns a Triangle
C12_ZeroAreaIsInvalidGeometry ==
    (/\ Returned("Triangle")
     /\ Collinear(call.args[1], call.args[2], call.args[3]))
        => call.ret.raised = "InvalidGeometry"

\* what the code does keep: no Triangle is returned for zero-area vertices, and
\* a returned Triangle has no zero axis
TriangleNeverDegenerate ==
    Returned("Triangle") =>
        /\ Collinear(call.args[1], call.args[2], call.args[3]) <=> call.ret.raised # "none"
        /\ call.ret.raised = "none" =>
               \A k \in 1..Len(call.ret.value.axes) : call.ret.value.axes[k] # zero_vector

\* C28: for a box and a triangle, in either order, intersects returns what the
\* projection loop alone returns: _quick_rejection is True for no pair whose
\* projections overlap on every axis of the two axis sets
C28_QuickRejectionIsOptimisation ==
    Returned("intersects") =>
        /\ {call.args[1].kind, call.args[2].kind} = {"AABB", "Triangle"}
        /\ call.ret = AxesOverlap(call.args[1], call.args[2])
        /\ call.quick => ~AxesOverlap(call.args[1], call.args[2])

\* a box asked about a triangle that _quick_rejection rejects; the loop finds
\* a separating axis among the box normals
C28_Witness ==
    /\ Returned("intersects")
    /\ call.args[1].kind = "AABB"
    /\ call.quick = TRUE
    /\ \E k \in 1..3 :
           ~_overlap(project(call.args[1], AABB_axes[k]), project(call.args[2], AABB_axes[k]))

\* the 9 products n x e of the box normals n and the edges e of the triangle
\* of vertices v0, v1, v2
EdgeCrosses(v0, v1, v2) ==
    LET edges == <<VecSub(v1, v0), VecSub(v2, v1), VecSub(v0, v2)>>
    IN  {<<n, e, cross(AABB_axes[n], edges[e])>> : n \in 1..3, e \in 1..3}

\* vectors a and b have one direction: b is a by a positive factor
SameDirection(a, b) ==
    /\ cross(a, b) = zero_vector
    /\ dot(a, b) > 0

\* C24: the axes of a Triangle that was constructed hold no zero vector: every
\* axis is the direction of the surface normal or of an edge x axis product
\* that is not zero, and no zero product has an entry
C24_NoZeroAxis ==
    (Returned("Triangle") /\ call.ret.raised = "none") =>
        LET axes == call.ret.value.axes
            prods == EdgeCrosses(call.args[1], call.args[2], call.args[3])
            kept == {p \in prods : p[3] # zero_vector}
            normal == cross(VecSub(call.args[2], call.args[1]), VecSub(call.args[3], call.args[2]))
        IN  /\ \A k \in 1..Len(axes) : axes[k] # zero_vector /\ dot(axes[k], axes[k]) > 0
            /\ SameDirection(axes[1], normal)
            /\ \A k \in 2..Len(axes) : \E p \in kept : SameDirection(axes[k], p[3])
            /\ Len(axes) = 1 + Cardinality(kept)

\* a triangle with an edge along a cardinal axis: a product is zero
C24_Witness ==
    /\ Returned("Triangle")
    /\ call.ret.raised = "none"
    /\ \E p \in EdgeCrosses(call.args[1], call.args[2], call.args[3]) : p[3] = zero_vector
    /\ Len(call.ret.value.axes) < 10

SetMin(S) == CHOOSE m \in S : \A x \in S : m <= x

SetMax(S) == CHOOSE m \in S : \A x \in S : m >= x

\* C19: project(axis) returns (min, max) of dot(axis, v) over the vertices of
\* the shape, and the extents cached at construction are the least and the
\* greatest x, y and z of the vertices, equal to the projections onto the
\* X, Y and Z unit axes, in whatever order the vertices are listed
C19_ProjectIsMinMax ==
    Returned("project") =>
        LET shape == call.args[1]
            axis  == call.args[2]
            vs    == shape.vertices
            dots  == {dot(axis, vs[k]) : k \in 1..Len(vs)}
            comp(c) == {vs[k][c] : k \in 1..Len(vs)}
        IN  /\ call.ret = <<SetMin(dots), SetMax(dots)>>
            /\ <<shape.min_x, shape.max_x>> = <<SetMin(comp(1)), SetMax(comp(1))>>
            /\ <<shape.min_y, shape.max_y>> = <<SetMin(comp(2)), SetMax(comp(2))>>
            /\ <<shape.min_z, shape.max_z>> = <<SetMin(comp(3)), SetMax(comp(3))>>
            /\ <<shape.min_x, shape.max_x>> = project(shape, AABB_axes[1])
            /\ <<shape.min_y, shape.max_y>> = project(shape, AABB_axes[2])
            /\ <<shape.min_z, shape.max_z>> = project(shape, AABB_axes[3])

\* three vertices on a tilted axis: the least projection is that of the last
\* vertex, the greatest that of the second
C19_Witness ==
    /\ Returned("project")
    /\ Len(call.args[1].vertices) = 3
    /\ call.args[2] \notin {AABB_axes[1], AABB_axes[2], AABB_axes[3]}
    /\ call.ret[1] = dot(call.args[2], call.args[1].vertices[3])
    /\ call.ret[2] = dot(call.args[2], call.args[1].vertices[2])
    /\ call.ret[1] < dot(call.args[2], call.args[1].vertices[1])
    /\ dot(call.args[2], call.args[1].vertices[1]) < call.ret[2]

-----------------------------------------------------------------------------
(* satTest.py: the operators of SimpleVec, applied to given arguments *)

VecValues == {SimpleVec(x, y, z) : x, y, z \in {-1, 0, 2}}

Scalars == {-3, -1, 0, 1, 2}

\* the right operand of v * w and the left operand of k * v, with its type
Operands ==
    {[type |-> "SimpleVec", val |-> w] : w \in VecValues}
    \cup {[type |-> "float", val |-> k] : k \in Scalars}

VecCalls ==
    {[fn |-> f, args |-> <<v, w>>] :
        f \in {"__add__", "__sub__", "dot"}, v \in VecValues, w \in VecValues}
    \cup {[fn |-> "__mul__", args |-> <<v, o>>] : v \in VecValues, o \in Operands}
    \cup {[fn |-> "__rmul__", args |-> <<v, [type |-> "float", val |-> k]>>] :
             v \in VecValues, k \in Scalars}

VecInit ==
    /\ GridIdle
    /\ OctIdle
    /\ MayaIdle
    /\ PartIdle
    /\ \E c \in VecCalls :
           call = [fn |-> c.fn, args |-> c.args, done |-> FALSE, ret |-> "none"]

\* satTest.py:19-20: v + w
Call_add ==
    /\ Pending("__add__")
    /\ call' = [call EXCEPT !.done = TRUE, !.ret = VecAdd(call.args[1], call.args[2])]
    /\ UNCHANGED <<pc, division_level, faces, hx, voxel_lattice, vox_map, i, polls,
                   passes, isCancelled, progress, created, raised, octVars, calls, tests, restVars>>

\* satTest.py:28-29: v - w
Call_sub ==
    /\ Pending("__sub__")
    /\ call' = [call EXCEPT !.done = TRUE, !.ret = VecSub(call.args[1], call.args[2])]
    /\ UNCHANGED <<pc, division_level, faces, hx, voxel_lattice, vox_map, i, polls,
                   passes, isCancelled, progress, created, raised, octVars, calls, tests, restVars>>

\* satTest.py:31-35: v * w, v * k
Call_mul ==
    /\ Pending("__mul__")
    /\ call' = [call EXCEPT !.done = TRUE, !.ret = __mul__(call.args[1], call.args[2])]
    /\ UNCHANGED <<pc, division_level, faces, hx, voxel_lattice, vox_map, i, polls,
                   passes, isCancelled, progress, created, raised, octVars, calls, tests, restVars>>

\* satTest.py:37-41: k * v
Call_rmul ==
    /\ Pending("__rmul__")
    /\ call' = [call EXCEPT !.done = TRUE, !.ret = __rmul__(call.args[1], call.args[2])]
    /\ UNCHANGED <<pc, division_level, faces, hx, voxel_lattice, vox_map, i, polls,
                   passes, isCancelled, progress, created, raised, octVars, calls, tests, restVars>>

\* satTest.py:74-78: v.dot(w)
Call_dot ==
    /\ Pending("dot")
    /\ call' = [call EXCEPT !.done = TRUE, !.ret = dot(call.args[1], call.args[2])]
    /\ UNCHANGED <<pc, division_level, faces, hx, voxel_lattice, vox_map, i, polls,
                   passes, isCancelled, progress, created, raised, octVars, calls, tests, restVars>>

VecNext ==
    \/ Call_add
    \/ Call_sub
    \/ Call_mul
    \/ Call_rmul
    \/ Call_dot

VecSpec == VecInit /\ [][VecNext]_vars

\* the determinant of the matrix of rows u, v, w: positive when u, v, w are a
\* right-handed frame
Det(u, v, w) ==
    u[1] * (v[2] * w[3] - v[3] * w[2])
    - u[2] * (v[1] * w[3] - v[3] * w[1])
    + u[3] * (v[1] * w[2] - v[2] * w[1])

\* C20: v+w and v-w are component-wise, with v + (-1*v) the zero vector; v*w is
\* the right-handed cross product (orthogonal to v and w, of squared length
\* |v|^2 |w|^2 - (v.w)^2, and v, w, v*w a right-handed frame unless it is zero);
\* k*v and v*k scale every component by k; v.dot(w) is the sum of the
\* component products
C20_VectorOperators ==
    LET v == call.args[1]
        w == call.args[2]
        r == call.ret
    IN  /\ Returned("__add__") => \A c \in 1..3 : r[c] = v[c] + w[c]
        /\ Returned("__sub__") => \A c \in 1..3 : r[c] = v[c] - w[c]
        /\ Returned("dot") => r = v[1] * w[1] + v[2] * w[2] + v[3] * w[3]
        /\ (Returned("__mul__") /\ w.type = "float") => \A c \in 1..3 : r[c] = w.val * v[c]
        /\ Returned("__rmul__") =>
               /\ \A c \in 1..3 : r[c] = w.val * v[c]
               /\ w.val = -1 => VecAdd(v, r) = zero_vector
        /\ (Returned("__mul__") /\ w.type = "SimpleVec") =>
               /\ r = <<v[2] * w.val[3] - v[3] * w.val[2],
                        v[3] * w.val[1] - v[1] * w.val[3],
                        v[1] * w.val[2] - v[2] * w.val[1]>>
               /\ dot(r, v) = 0
               /\ dot(r, w.val) = 0
               /\ dot(r, r) = dot(v, v) * dot(w.val, w.val) - dot(v, w.val) * dot(v, w.val)
               /\ Det(v, w.val, r) >= 0
               /\ r # zero_vector => Det(v, w.val, r) > 0

\* a cross product with a non-zero y component has been computed
C20_Witness ==
    /\ Returned("__mul__")
    /\ call.args[2].type = "SimpleVec"
    /\ call.ret[2] # 0
    /\ call.ret[1] # 0

-----------------------------------------------------------------------------
(* octTree.py *)

\* OctTreeNode._half_values
_half_values(bp_min, bp_max) ==
    <<Half(bp_max[1] + bp_min[1]), Half(bp_max[2] + bp_min[2]), Half(bp_max[3] + bp_min[3])>>

\* OctTreeNode.__init__; parent and children are paths from the root
OctTreeNode(bp_min, bp_max, dl, parent) ==
    [bp_min |-> bp_min, bp_max |-> bp_max,
     half_values |-> _half_values(bp_min, bp_max),
     parent |-> parent, division_level |-> dl, children |-> <<>>]

\* OctTree.__init__: the tree holds its root, at the empty path
OctTree(bounding_point_min, bounding_point_max) ==
    (<<>> :> OctTreeNode(bounding_point_min, bounding_point_max, 0, "tree"))

\* OctTreeNode.subdivide on the node at path: line 94 reads the name node, which
\* no scope defines, before anything is changed; NameError ends the call
OctSubdivide(tree, path) ==
    [raised |-> "NameError", tree |-> tree]

\* child_index with the weights of x and z exchanged
child_index_swapped(half_values, point) ==
    LET gt_half_x == IF point[1] >= half_values[1] THEN 1 ELSE 0
        gt_half_y == IF point[2] >= half_values[2] THEN 1 ELSE 0
        gt_half_z == IF point[3] >= half_values[3] THEN 1 ELSE 0
    IN  4 * gt_half_x + 2 * gt_half_y + gt_half_z

\* octTree.py:57-66: the index node_containing computes
child_index(half_values, point) ==
    LET gt_half_x == IF point[1] >= half_values[1] THEN 1 ELSE 0
        gt_half_y == IF point[2] >= half_values[2] THEN 1 ELSE 0
        gt_half_z == IF point[3] >= half_values[3] THEN 1 ELSE 0
    IN  4 * gt_half_z + 2 * gt_half_y + gt_half_x

\* OctTreeNode.node_containing: self.children[child_index] is an IndexError
\* when the list is shorter than the index asks
node_containing(self, point) ==
    LET idx == child_index(self.half_values, point)
    IN  IF idx + 1 > Len(self.children)
        THEN [raised |-> "IndexError", child_index |-> idx]
        ELSE [raised |-> "none", child_index |-> idx, value |-> self.children[idx + 1]]

\* OctTreeNode.is_inside: line 79 calls all() with three arguments, a TypeError
is_inside(self, point) ==
    [raised |-> "TypeError"]

-----------------------------------------------------------------------------
(* octTree.py: the methods of OctTreeNode, applied to given arguments *)

\* the root nodes of the trees OctTree(min, max) over boxes of even lengths
TreeRoots ==
    {OctTree(mn, <<mn[1] + 2 * h[1], mn[2] + 2 * h[2], mn[3] + 2 * h[3]>>)[<<>>] :
        mn \in {<<0, 0, 0>>, <<-2, 2, 4>>},
        h \in (1..MaxHalf) \X (1..MaxHalf) \X (1..MaxHalf)}

\* offsets from the minimum corner of a node to points in, on and around its box
TreeOffsets ==
    ((-1)..(2 * MaxHalf + 1)) \X ((-1)..(2 * MaxHalf + 1)) \X ((-1)..(2 * MaxHalf + 1))

\* the point at offset d from the minimum corner of node
TreePoint(node, d) ==
    <<node.bp_min[1] + d[1], node.bp_min[2] + d[2], node.bp_min[3] + d[3]>>

\* the points the properties quantify over
TreePoints(node) == {TreePoint(node, d) : d \in TreeOffsets}

TreeCalls ==
    {[fn |-> f, args |-> <<n, TreePoint(n, d)>>] :
        f \in {"node_containing", "is_inside"}, n \in TreeRoots, d \in TreeOffsets}
    \cup {[fn |-> "OctTreeNode.subdivide", args |-> <<n>>] : n \in TreeRoots}

TreeInit ==
    /\ GridIdle
    /\ OctIdle
    /\ MayaIdle
    /\ PartIdle
    /\ \E c \in TreeCalls :
           call = [fn |-> c.fn, args |-> c.args, done |-> FALSE, ret |-> "none"]

\* octTree.py:52-67
Call_node_containing ==
    /\ Pending("node_containing")
    /\ call' = [call EXCEPT !.done = TRUE,
                            !.ret = node_containing(call.args[1], call.args[2])]
    /\ UNCHANGED <<pc, division_level, faces, hx, voxel_lattice, vox_map, i, polls,
                   passes, isCancelled, progress, created, raised, octVars, calls, tests, restVars>>

\* octTree.py:69-79
Call_is_inside ==
    /\ Pending("is_inside")
    /\ call' = [call EXCEPT !.done = TRUE,
                            !.ret = is_inside(call.args[1], call.args[2])]
    /\ UNCHANGED <<pc, division_level, faces, hx, voxel_lattice, vox_map, i, polls,
                   passes, isCancelled, progress, created, raised, octVars, calls, tests, restVars>>

\* octTree.py:81-127: node.subdivide(); ret holds the exception and the tree
\* under the node after the call
Call_OctSubdivide ==
    /\ Pending("OctTreeNode.subdivide")
    /\ call' = [call EXCEPT !.done = TRUE,
                            !.ret = OctSubdivide((<<>> :> call.args[1]), <<>>)]
    /\ UNCHANGED <<pc, division_level, faces, hx, voxel_lattice, vox_map, i, polls,
                   passes, isCancelled, progress, created, raised, octVars, calls, tests, restVars>>

TreeNext ==
    \/ Call_node_containing
    \/ Call_is_inside
    \/ Call_OctSubdivide

TreeSpec == TreeInit /\ [][TreeNext]_vars

-----------------------------------------------------------------------------
(* Properties of the methods of OctTreeNode *)

\* the k-th binary digit (k = 0, 1, 2) of the index n
Bit(n, k) == (n \div Pow(2, k)) % 2

\* the 8 corner-relative test points of a node: one step to either side of
\* the midpoint on every axis
CornerPoints(node) ==
    {<<node.half_values[1] + s[1], node.half_values[2] + s[2], node.half_values[3] + s[3]>> :
        s \in {-1, 1} \X {-1, 1} \X {-1, 1}}

\* q lies in the half-open box [lo, hi)
InHalfOpenBox(q, lo, hi) == \A a \in 1..3 : lo[a] <= q[a] /\ q[a] < hi[a]

\* C14: the index node_containing computes has bit k (x = 0, y = 1, z = 2) set
\* iff point[k] >= midpoint[k]; it is 0 in the (min,min,min) octant and 7 in the
\* octant from the midpoint to max, and over the 8 corner-relative test points
\* of the node it takes each of 0..7 once
C14_OctantIndex ==
    Returned("node_containing") =>
        LET node == call.args[1]
            q    == call.args[2]
            idx  == call.ret.child_index
        IN  /\ idx \in 0..7
            /\ \A k \in 0..2 : (Bit(idx, k) = 1) <=> (q[k + 1] >= node.half_values[k + 1])
            /\ InHalfOpenBox(q, node.bp_min, node.half_values) => idx = 0
            /\ InHalfOpenBox(q, node.half_values, node.bp_max) => idx = 7
            /\ {child_index(node.half_values, t) : t \in CornerPoints(node)} = 0..7
            /\ \A t, u \in CornerPoints(node) :
                   child_index(node.half_values, t) = child_index(node.half_values, u) => t = u

\* a corner-relative test point above the midpoint in x and z, below it in y
C14_Witness ==
    /\ Returned("node_containing")
    /\ call.args[2] \in CornerPoints(call.args[1])
    /\ call.ret.child_index = 5
    /\ call.args[2][1] > call.args[1].half_values[1]
    /\ call.args[2][2] < call.args[1].half_values[2]
    /\ call.args[2][3] > call.args[1].half_values[3]

\* C15: after node.subdivide(), every point of the node's half-open box
\* [min,max) lies in the half-open box of exactly one of the 8 children, the
\* one node_containing returns (children[octantIndex(point)]); a point on a
\* midpoint plane goes to the upper child on that axis
C15_PointInExactlyOneChild ==
    Returned("OctTreeNode.subdivide") =>
        LET tree == call.ret.tree
            node == tree[<<>>]
        IN  /\ call.ret.raised = "none"
            /\ Len(node.children) = 8
            /\ \A q \in TreePoints(node) :
                   InHalfOpenBox(q, node.bp_min, node.bp_max) =>
                       LET r == node_containing(node, q)
                       IN  /\ r.raised = "none"
                           /\ InHalfOpenBox(q, tree[r.value].bp_min, tree[r.value].bp_max)
                           /\ \A k \in 1..8 :
                                  InHalfOpenBox(q, tree[node.children[k]].bp_min,
                                                   tree[node.children[k]].bp_max)
                                      => node.children[k] = r.value
                           /\ \A a \in 1..3 :
                                  q[a] = node.half_values[a]
                                      => tree[r.value].bp_min[a] = node.half_values[a]

\* C16: node_containing on a point outside the node's box signals OutOfBounds;
\* it raises no index fault and returns no node
C16_OutsideIsOutOfBounds ==
    (/\ Returned("node_containing")
     /\ ~InHalfOpenBox(call.args[2], call.args[1].bp_min, call.args[1].bp_max))
        => call.ret.raised = "OutOfBounds"

\* C23: after node.subdivide() every node of the tree has no children or
\* exactly 8, and the node subdivided has 8: each of them at the node's division
\* level + 1 with the node as parent, child n spanning {min, mid} or {mid, max}
\* on x, y and z according to bits 0, 1 and 2 of n
C23_SubdivideMakesEightOctants ==
    Returned("OctTreeNode.subdivide") =>
        LET tree == call.ret.tree
            node == tree[<<>>]
        IN  /\ call.ret.raised = "none"
            /\ \A p \in DOMAIN tree : Len(tree[p].children) \in {0, 8}
            /\ Len(node.children) = 8
            /\ \A n \in 0..7 :
                   LET child == tree[node.children[n + 1]]
                   IN  /\ child.division_level = node.division_level + 1
                       /\ child.parent = <<>>
                       /\ \A a \in 1..3 :
                              IF Bit(n, a - 1) = 1
                              THEN /\ child.bp_min[a] = node.half_values[a]
                                   /\ child.bp_max[a] = node.bp_max[a]
                              ELSE /\ child.bp_min[a] = node.bp_min[a]
                                   /\ child.bp_max[a] = node.half_values[a]

\* what the code keeps: subdivide leaves the tree as it was, its node a leaf
SubdivideChangesNothing ==
    Returned("OctTreeNode.subdivide") =>
        /\ call.ret.raised = "NameError"
        /\ call.ret.tree = (<<>> :> call.args[1])
        /\ call.args[1].children = <<>>

-----------------------------------------------------------------------------
(* voxelizer_octree.py: _voxelize_mesh *)

OctInputs == Meshes \X ((-1)..MaxMeshDepth)

\* the numberings of the vertices of a mesh: in the order the faces use them,
\* or the first vertices of all faces, then the second ones, then the third
VertexOrders == {"by_face", "interleaved"}

OctInit ==
    /\ pc = "oct_start"
    /\ \E inp \in OctInputs :
           /\ faces = inp[1]
           /\ num_divisions = inp[2]
    /\ oct_tree = <<>>
    /\ oct_tree_nodes = <<>>
    /\ voxel_locations = {}
    /\ face_index = 0
    /\ vtx_order \in VertexOrders
    /\ division_level = 0
    /\ hx = 0
    /\ voxel_lattice = <<>>
    /\ vox_map = <<>>
    /\ i = 0
    /\ polls = 0
    /\ passes = 0
    /\ isCancelled = FALSE
    /\ progress = "none"
    /\ created = {}
    /\ raised = "none"
    /\ calls = 0
    /\ tests = 0
    /\ CallIdle
    /\ MayaIdle
    /\ PartIdle

\* voxelizer_octree.py:48-51
OctBoundingBox ==
    /\ pc = "oct_start"
    /\ LET bb == exactWorldBoundingBox(faces)
       IN  oct_tree' = OctTree(<<bb.min_x, bb.min_y, bb.min_z>>,
                               <<bb.max_x, bb.max_y, bb.max_z>>)
    /\ oct_tree_nodes' = << <<>> >>
    /\ pc' = "oct_subdivide"
    /\ UNCHANGED <<num_divisions, voxel_locations, face_index, vtx_order, division_level, faces, hx,
                   voxel_lattice, vox_map, i, polls, passes, isCancelled, progress, created,
                   raised, call, calls, tests, restVars>>

\* voxelizer_octree.py:54-59: one pass of the while loop.  Line 58 calls the
\* list tree_node.children (TypeError); line 59 leaves the loop in any case
OctSubdivideStep ==
    /\ pc = "oct_subdivide"
    /\ IF oct_tree_nodes = <<>>
       THEN /\ pc' = "oct_faces"
            /\ UNCHANGED <<oct_tree, oct_tree_nodes, raised>>
       ELSE LET tree_node == Head(oct_tree_nodes)
                sub == OctSubdivide(oct_tree, tree_node)
            IN  /\ oct_tree_nodes' = Tail(oct_tree_nodes)
                /\ IF oct_tree[tree_node].division_level < num_divisions
                   THEN /\ oct_tree' = sub.tree
                        /\ raised' = IF sub.raised # "none" THEN sub.raised ELSE "TypeError"
                        /\ pc' = "raised"
                   ELSE /\ pc' = "oct_faces"
                        /\ UNCHANGED <<oct_tree, raised>>
    /\ UNCHANGED <<num_divisions, voxel_locations, face_index, vtx_order, division_level, faces, hx,
                   voxel_lattice, vox_map, i, polls, passes, isCancelled, progress, created,
                   call, calls, tests, restVars>>

\* the index of vertex q of the mesh: q is mesh.vtx[VertexIndex(mesh, q)], the
\* vertices numbered from 0 in the order vtx_order lists them, each once
VertexIndex(mesh, q) ==
    LET flat == [n \in 1..(3 * Len(mesh)) |->
                    IF vtx_order = "by_face"
                    THEN mesh[((n - 1) \div 3) + 1][((n - 1) % 3) + 1]
                    ELSE mesh[((n - 1) % Len(mesh)) + 1][((n - 1) \div Len(mesh)) + 1]]
        first == CHOOSE n \in 1..Len(flat) :
                     flat[n] = q /\ \A m \in 1..(n - 1) : flat[m] # q
    IN  Cardinality({flat[m] : m \in 1..(first - 1)})

\* a set of vertex items as a list, by their first index
RECURSIVE ComponentList(_)
ComponentList(items) ==
    IF items = {} THEN <<>>
    ELSE LET head == CHOOSE r \in items : \A q \in items : r.first <= q.first
         IN  <<head>> \o ComponentList(items \ {head})

\* voxelizer_octree.py:64-65: cmds.polyListComponentConversion(face, ff=True,
\* tv=True), not flattened: the vertices of the face, each run of consecutive
\* indices as one item 'mesh.vtx[first:last]', a single index as 'mesh.vtx[first]'
polyListComponentConversion(mesh, f) ==
    LET idx == {VertexIndex(mesh, mesh[f + 1][k]) : k \in 1..3}
    IN  ComponentList({[first |-> r[1], last |-> r[2], range |-> (r[1] # r[2])] : r \in
            {r \in idx \X idx : /\ r[1] <= r[2]
                                 /\ \A n \in r[1]..r[2] : n \in idx
                                 /\ (r[1] - 1) \notin idx
                                 /\ (r[2] + 1) \notin idx}})

\* voxelizer_octree.py:30-36: the loop of _flatten_vert_list from item k on.
\* VERT_SPLIT_RE matches the items with a colon only, the others are passed
\* over; line 35 formats a group of the match, a string, with %d: TypeError
RECURSIVE FlattenLoop(_, _, _)
FlattenLoop(vert_list, k, flattened_verts) ==
    IF k > Len(vert_list) THEN [raised |-> "none", value |-> flattened_verts]
    ELSE IF ~vert_list[k].range THEN FlattenLoop(vert_list, k + 1, flattened_verts)
    ELSE [raised |-> "TypeError", value |-> flattened_verts]

\* voxelizer_octree.py:22-36
_flatten_vert_list(vert_list) == FlattenLoop(vert_list, 1, <<>>)

\* voxelizer_octree.py:71-77: the loop over the vertices of a face.  The root
\* is taken; while it has children line 74 asks for child_containing, a method
\* OctTreeNode does not have (AttributeError); the midpoint of the node found
\* is added to the set
RECURSIVE VertLoop(_, _, _, _)
VertLoop(tree, vert_list, k, locations) ==
    IF k > Len(vert_list) THEN [raised |-> "none", value |-> locations]
    ELSE IF tree[<<>>].children # <<>> THEN [raised |-> "AttributeError", value |-> locations]
    ELSE VertLoop(tree, vert_list, k + 1, locations \cup {tree[<<>>].half_values})

\* voxelizer_octree.py:61
OctBeginFaces ==
    /\ pc = "oct_faces"
    /\ voxel_locations' = {}
    /\ face_index' = 0
    /\ pc' = "oct_face"
    /\ UNCHANGED <<num_divisions, oct_tree, oct_tree_nodes, vtx_order, division_level, faces, hx,
                   voxel_lattice, vox_map, i, polls, passes, isCancelled, progress, created,
                   raised, call, calls, tests, restVars>>

\* voxelizer_octree.py:63-77: one pass of the face loop, or its end
OctFace ==
    /\ pc = "oct_face"
    /\ IF face_index >= Len(faces)
       THEN /\ pc' = "oct_cubes"
            /\ UNCHANGED <<voxel_locations, face_index, raised>>
       ELSE LET face_verts == polyListComponentConversion(faces, face_index)
                vert_list == _flatten_vert_list(face_verts)
                found == VertLoop(oct_tree, vert_list.value, 1, voxel_locations)
            IN  IF vert_list.raised # "none"
                THEN /\ raised' = vert_list.raised
                     /\ pc' = "raised"
                     /\ UNCHANGED <<voxel_locations, face_index>>
                ELSE IF found.raised # "none"
                THEN /\ raised' = found.raised
                     /\ voxel_locations' = found.value
                     /\ pc' = "raised"
                     /\ UNCHANGED face_index
                ELSE /\ voxel_locations' = found.value
                     /\ face_index' = face_index + 1
                     /\ pc' = "oct_face"
                     /\ UNCHANGED raised
    /\ UNCHANGED <<num_divisions, oct_tree, oct_tree_nodes, vtx_order, division_level, faces, hx,
                   voxel_lattice, vox_map, i, polls, passes, isCancelled, progress, created,
                   call, calls, tests, restVars>>

\* voxelizer_octree.py:79-83: a cube at each of the voxel_locations
OctCreateCubes ==
    /\ pc = "oct_cubes"
    /\ created' = voxel_locations
    /\ pc' = "oct_done"
    /\ UNCHANGED <<octVars, division_level, faces, hx, voxel_lattice, vox_map, i, polls,
                   passes, isCancelled, progress, raised, call, calls, tests, restVars>>

OctNext ==
    \/ OctBoundingBox
    \/ OctSubdivideStep
    \/ OctBeginFaces
    \/ OctFace
    \/ OctCreateCubes

OctSpec == OctInit /\ [][OctNext]_vars

\* the subdivision loop of _voxelize_mesh has been left, by break or by an exception
OctLoopLeft == pc \in {"oct_faces", "oct_face", "oct_cubes", "oct_done", "raised"}

OctLeaves == {p \in DOMAIN oct_tree : oct_tree[p].children = <<>>}

\* C8: the octree driver subdivides breadth-first across all branches until
\* every leaf of the tree is at depth exactly num_divisions; it does not stop
\* after the first node taken from the queue
C8_OctreeUniformDepth ==
    (OctLoopLeft /\ num_divisions >= 0) =>
        \A p \in OctLeaves : oct_tree[p].division_level = num_divisions

\* the midpoint of the leaf of depth d, in the box from bp_min to bp_max
\* subdivided uniformly, that the octant index leads to from the root for point q
RECURSIVE LeafMidpoint(_, _, _, _)
LeafMidpoint(bp_min, bp_max, d, q) ==
    LET half == _half_values(bp_min, bp_max)
        idx == child_index(half, q)
    IN  IF d <= 0 THEN half
        ELSE LeafMidpoint([a \in 1..3 |-> IF Bit(idx, a - 1) = 1 THEN half[a] ELSE bp_min[a]],
                          [a \in 1..3 |-> IF Bit(idx, a - 1) = 1 THEN bp_max[a] ELSE half[a]],
                          d - 1, q)

\* _voxelize_mesh has returned or raised
OctEnded == pc \in {"oct_done", "raised"}

\* C26: the octree driver ends without an exception, and the cubes it creates
\* are at the midpoints of the leaves that the descent through
\* children[octantIndex] reaches from the root for the vertices of the mesh,
\* one cube for each leaf reached however many vertices lie in it
C26_VerticesLocated ==
    (OctEnded /\ num_divisions >= 0) =>
        LET bb == exactWorldBoundingBox(faces)
        IN  /\ raised = "none"
            /\ created = {LeafMidpoint(<<bb.min_x, bb.min_y, bb.min_z>>,
                                        <<bb.max_x, bb.max_y, bb.max_z>>,
                                        num_divisions, faces[f][k]) :
                              f \in 1..Len(faces), k \in 1..3}

\* what the code does: no run of _voxelize_mesh creates a cube; a run ends
\* with the NameError of subdivide, with the TypeError of _flatten_vert_list,
\* or with an empty set when no face has vertices of consecutive indices
OctNothingCreated ==
    /\ created = {}
    /\ voxel_locations = {}
    /\ pc = "raised" => raised \in {"NameError", "TypeError"}
    /\ pc = "oct_done" =>
           \A f \in 0..(Len(faces) - 1) :
               \A k \in 1..Len(polyListComponentConversion(faces, f)) :
                   ~polyListComponentConversion(faces, f)[k].range

-----------------------------------------------------------------------------
(* maya_voxelize.py: voxelizeMesh *)

\* Coordinates of vertex locations are given in halves: c stands for c/2.
\* int(x) of line 139 rounds towards zero
int(c) == IF c >= 0 THEN 2 * (c \div 2) ELSE -(2 * ((-c) \div 2))

\* the locations cmds.xform(v, q=True, t=True) returns for the vertices
VertLocations == {<<0, 0, 0>>, <<1, 0, 0>>, <<-1, 1, 0>>, <<3, 2, -1>>, <<4, 4, 4>>}

MayaInputs == UNION {[1..n -> VertLocations] : n \in 0..MaxVerts}

MayaInit ==
    /\ pc = "maya_start"
    /\ minecraft \in BOOLEAN
    /\ verts \in MayaInputs
    /\ vert_pos = 0
    /\ voxels = <<>>
    /\ voxelMap = {}
    /\ faces = <<>>
    /\ division_level = 0
    /\ hx = 0
    /\ voxel_lattice = <<>>
    /\ vox_map = <<>>
    /\ i = 0
    /\ polls = 0
    /\ passes = 0
    /\ isCancelled = FALSE
    /\ progress = "none"
    /\ created = {}
    /\ raised = "none"
    /\ calls = 0
    /\ tests = 0
    /\ OctIdle
    /\ CallIdle
    /\ PartIdle

\* maya_voxelize.py:126-133, 194-195
MayaBegin ==
    /\ pc = "maya_start"
    /\ voxels' = <<>>
    /\ voxelMap' = {}
    /\ vert_pos' = 0
    /\ i' = 0
    /\ progress' = "open"
    /\ isCancelled' = FALSE
    /\ pc' = "maya_vert"
    /\ UNCHANGED <<minecraft, verts, polls, raised, division_level, faces, hx, voxel_lattice,
                   vox_map, passes, created, call, octVars, calls, tests, partVars>>

\* the user presses cancel in the interruptable progress window
MayaCancel ==
    /\ pc = "maya_vert"
    /\ progress = "open"
    /\ ~isCancelled
    /\ isCancelled' = TRUE
    /\ UNCHANGED <<pc, mayaVars, i, polls, progress, raised, division_level, faces, hx,
                   voxel_lattice, vox_map, passes, created, call, octVars, calls, tests,
                   partVars>>

\* maya_voxelize.py:136-157: one pass of the vertex loop of the mode, or the end
\* of the loop.  The key of line 140 is the text of three integers, one text
\* for each location; the model holds the location for it
MayaVertex ==
    /\ pc = "maya_vert"
    /\ IF vert_pos >= Len(verts)
       THEN /\ pc' = "maya_kill"
            /\ UNCHANGED <<vert_pos, voxels, voxelMap, i, polls>>
       ELSE LET v == verts[vert_pos + 1]
                location == <<int(v[1]), int(v[2]), int(v[3])>>
                key == location
            IN  /\ vert_pos' = vert_pos + 1
                /\ IF minecraft
                   THEN IF key \notin voxelMap
                        THEN /\ voxels' = Append(voxels, location)
                             /\ voxelMap' = voxelMap \cup {key}
                             /\ i' = i + 1
                             /\ polls' = polls + 1
                             /\ pc' = IF ~updateProgressWindow(isCancelled)
                                      THEN "maya_kill" ELSE "maya_vert"
                        ELSE /\ pc' = "maya_vert"
                             /\ UNCHANGED <<voxels, voxelMap, i, polls>>
                   ELSE /\ voxels' = Append(voxels, v)
                        /\ i' = i + 1
                        /\ pc' = "maya_vert"
                        /\ UNCHANGED <<voxelMap, polls>>
    /\ UNCHANGED <<minecraft, verts, isCancelled, progress, raised, division_level, faces, hx,
                   voxel_lattice, vox_map, passes, created, call, octVars, calls, tests,
                   partVars>>

\* maya_voxelize.py:158-159, 204-206: killProgressWindow, then the group of the
\* voxels
MayaKill ==
    /\ pc = "maya_kill"
    /\ progress' = "complete"
    /\ pc' = "maya_done"
    /\ UNCHANGED <<mayaVars, i, polls, isCancelled, raised, division_level, faces, hx,
                   voxel_lattice, vox_map, passes, created, call, octVars, calls, tests,
                   partVars>>

MayaNext ==
    \/ MayaBegin
    \/ MayaCancel
    \/ MayaVertex
    \/ MayaKill

MayaSpec == MayaInit /\ [][MayaNext]_vars

\* the stop signal has been polled once for each vertex the loop has processed
PollPerVertex ==
    pc \in {"maya_vert", "maya_kill", "maya_done"} => polls = vert_pos

\* a pass begun after the user pressed cancel ends the loop, the voxels kept
StopEndsVertexLoop ==
    (pc = "maya_vert" /\ isCancelled /\ vert_pos < Len(verts)) =>
        /\ pc' = "maya_kill"
        /\ Len(voxels') >= Len(voxels)
        /\ SubSeq(voxels', 1, Len(voxels)) = voxels

\* nothing after the loop removes a voxel
VoxelsKept == pc \in {"maya_kill", "maya_done"} => voxels' = voxels

\* C27: voxelizeMesh polls the stop signal once per vertex processed, in the
\* quantized (minecraft) mode and in the unquantized one, and when stop is
\* reported it ends the vertex loop and keeps the voxels created so far
C27_PollPerVertexAndKeep ==
    /\ []PollPerVertex
    /\ [][StopEndsVertexLoop /\ VoxelsKept]_vars

\* what the code does: the quantized mode polls once for each voxel it
\* creates, after creating it, and a poll that reports stop ends the loop; the
\* unquantized mode never polls and so runs over every vertex; the voxels
\* created stay
PollPerVoxelCreated ==
    /\ Len(voxels) = i
    /\ minecraft => polls = i
    /\ ~minecraft => polls = 0
    /\ (~minecraft /\ pc \in {"maya_kill", "maya_done"}) => voxels = verts
    /\ (pc \in {"maya_kill", "maya_done"} /\ vert_pos < Len(verts)) => (minecraft /\ isCancelled)

-----------------------------------------------------------------------------
(* pathPartition.py: main *)

\* pathPartition.py:9-10: the default of the -n option, an int
DefaultPartitions == 5

\* pathPartition.py:9-10, 14, 46: opts.numpartitions.  The option has no type,
\* so a count given on the command line is the text of the argument (a str);
\* only the default of line 10 is an int
PartitionCounts ==
    {[type |-> "int", val |-> DefaultPartitions]}
    \cup {[type |-> "str", val |-> k] : k \in 1..MaxPartitions}

\* pathPartition.py:51: sorted(os.listdir(path)).  A file name is held as its
\* rank in the sorted order of the names
SortedListings == {[p \in 1..n |-> p] : n \in 0..MaxFiles}

\* pathPartition.py:63: os.sep.join([path, f])
abs_path(f) == <<"path", f>>

\* pathPartition.py:59: file_count / num_partitions of two ints of Python 2
files_per_partition == Len(files) \div numpartitions.val

\* the position in a list of length n that the Python index j names: 0 where
\* list[j] raises IndexError
ListIndex(n, j) ==
    IF 0 <= j /\ j < n THEN j + 1
    ELSE IF j < 0 /\ -n <= j THEN n + j + 1
    ELSE 0

PartInit ==
    /\ pc = "part_start"
    /\ numpartitions \in PartitionCounts
    /\ files \in SortedListings
    /\ file_pos = 0
    /\ partitions = <<>>
    /\ partition_index = 0
    /\ faces = <<>>
    /\ division_level = 0
    /\ hx = 0
    /\ voxel_lattice = <<>>
    /\ vox_map = <<>>
    /\ i = 0
    /\ polls = 0
    /\ passes = 0
    /\ isCancelled = FALSE
    /\ progress = "none"
    /\ created = {}
    /\ raised = "none"
    /\ calls = 0
    /\ tests = 0
    /\ OctIdle
    /\ CallIdle
    /\ MayaIdle

\* pathPartition.py:58-60: range(0, num_partitions) raises TypeError for a str
PartBegin ==
    /\ pc = "part_start"
    /\ IF numpartitions.type # "int"
       THEN /\ raised' = "TypeError"
            /\ pc' = "raised"
            /\ UNCHANGED <<partitions, partition_index, file_pos>>
       ELSE /\ partitions' = [k \in 1..numpartitions.val |-> <<>>]
            /\ partition_index' = 0
            /\ file_pos' = 0
            /\ pc' = "part_file"
            /\ UNCHANGED raised
    /\ UNCHANGED <<numpartitions, files, passes, division_level, faces, hx, voxel_lattice,
                   vox_map, i, polls, isCancelled, progress, created, call, octVars,
                   calls, tests, mayaVars>>

\* pathPartition.py:62-69: one pass of the loop over the files, or its end.  The
\* index of line 64 is file_pos, the number of files passed; the append of line
\* 69 is inside the handler, so an IndexError it raises leaves main
PartFile ==
    /\ pc = "part_file"
    /\ IF file_pos >= Len(files)
       THEN /\ pc' = "part_done"
            /\ UNCHANGED <<file_pos, partition_index, partitions, raised>>
       ELSE LET f == files[file_pos + 1]
                index == IF file_pos > files_per_partition * (partition_index + 1)
                         THEN partition_index + 1 ELSE partition_index
                at == ListIndex(Len(partitions), index)
                before == ListIndex(Len(partitions), index - 1)
            IN  /\ partition_index' = index
                /\ IF at # 0
                   THEN /\ partitions' =
                               [partitions EXCEPT ![at] = Append(@, abs_path(f))]
                        /\ file_pos' = file_pos + 1
                        /\ pc' = "part_file"
                        /\ UNCHANGED raised
                   ELSE IF before # 0
                   THEN /\ partitions' =
                               [partitions EXCEPT ![before] = Append(@, abs_path(f))]
                        /\ file_pos' = file_pos + 1
                        /\ pc' = "part_file"
                        /\ UNCHANGED raised
                   ELSE /\ raised' = "IndexError"
                        /\ pc' = "raised"
                        /\ UNCHANGED <<partitions, file_pos>>
    /\ UNCHANGED <<numpartitions, files, passes, division_level, faces, hx, voxel_lattice,
                   vox_map, i, polls, isCancelled, progress, created, call, octVars,
                   calls, tests, mayaVars>>

PartNext ==
    \/ PartBegin
    \/ PartFile

PartSpec == PartInit /\ [][PartNext]_vars

\* the partitions one after the other, from partition k on
RECURSIVE Concatenation(_, _)
Concatenation(parts, k) ==
    IF k > Len(parts) THEN <<>> ELSE parts[k] \o Concatenation(parts, k + 1)

\* the paths of the first n files, in sorted order
SortedPaths(n) == [p \in 1..n |-> abs_path(files[p])]

\* C30: for every number of files and every partition count k >= 1 the loop
\* raises no IndexError, and when it ends there are k partitions that, one
\* after the other, give the sorted list of files: each file is in exactly one
C30_PartitionsKeepSortedFiles ==
    (numpartitions.type = "int" /\ numpartitions.val >= 1) =>
        /\ raised # "IndexError"
        /\ pc = "part_file" =>
               Concatenation(partitions, 1) = SortedPaths(file_pos)
        /\ pc = "part_done" =>
               /\ Len(partitions) = numpartitions.val
               /\ Concatenation(partitions, 1) = SortedPaths(Len(files))

\* what the code has for C30: the files passed so far are in the partitions in
\* sorted order until partition_index goes past the number of partitions; the
\* handler of line 68 serves the first index past the end, and the next one
\* leaves main with the IndexError of line 69
IndexPastEndRaises ==
    numpartitions.type = "int" =>
        /\ pc \in {"part_file", "part_done"} =>
               /\ Len(partitions) = numpartitions.val
               /\ partition_index <= numpartitions.val
               /\ Concatenation(partitions, 1) = SortedPaths(file_pos)
        /\ pc = "part_done" => file_pos = Len(files)
        /\ raised = "IndexError" =>
               /\ partition_index = numpartitions.val + 1
               /\ file_pos < Len(files)
               /\ Len(files) >= 2 * numpartitions.val - 2

====
